---------------------------- MODULE Spec2Model ----------------------------
(***************************************************************************)
(* A model of the md-browser firmware: the HTTP file manager               *)
(* (mngr_httpd.c: transfer context pools, chunked upload and download,     *)
(* directory listing, delete) and the host command mailbox (mngr.c).       *)
(*                                                                         *)
(* C strings are sequences of character codes (the terminating NUL is not  *)
(* stored).  A CGI request is a record whose fields are the parameters     *)
(* present in the query string.                                            *)
(***************************************************************************)
EXTENDS Integers, Sequences, FiniteSets, TLC

VARIABLES
  upload_contexts,    \* upload_ctx_t upload_contexts[MAX_UPLOAD_CONTEXTS]
  download_contexts,  \* download_ctx_t download_contexts[MAX_DOWNLOAD_CONTEXTS]
  fs,                 \* the FAT volume: path -> node
  json_buff,          \* the shared JSON response buffer
  current_chunk_ctx,  \* the slot of the POST upload being received, or NULL
  current_chunk_idx,  \* its chunk index
  current_connection, \* the connection it arrives on
  posts,              \* connections between post_begin (ERR_OK) and post_finished
  side,               \* the direction the client of this run transfers in
  req,                \* the request served last (observer)
  live,               \* <<direction, token>> started and not ended since (observer)
  mon,                \* observer of "pool full, one freed, start again"
  client,             \* what a client has sent and received in a transfer (observer)
  lastProtocol,       \* TransmissionProtocol lastProtocol, the mailbox
  lastProtocolValid,  \* its valid flag
  startBooster,       \* the flag that ends mngr_init's loop
  memoryRandomTokenAddress, \* where the random token goes, 0 before mngr_preinit
  shared,             \* the random token and its seed in the shared memory
  mngr,               \* mngr_loop's position and locals
  host,               \* the commands delivered and dispatched (observer)
  downloadStatus,     \* download_status_t downloadStatus (download.c)
  url,                \* char url[DOWNLOAD_BUFFLINE_SIZE], the download target
  dst_folder,         \* char dst_folder[DOWNLOAD_BUFFLINE_SIZE]
  components,         \* download_url_components_t components
  fileUrl,            \* download_file_t fileUrl
  file,               \* FIL file, the file the download is written to
  request             \* HTTPC_REQUEST_T request

postVars == <<current_chunk_ctx, current_chunk_idx, current_connection, posts>>
mngrVars == <<lastProtocol, lastProtocolValid, startBooster,
              memoryRandomTokenAddress, shared, mngr, host>>
httpVars == <<upload_contexts, download_contexts, fs, json_buff, postVars,
              side, req, live, mon, client>>
dlVars == <<downloadStatus, url, dst_folder, components, fileUrl, file, request>>
vars == <<httpVars, mngrVars, dlVars>>

-----------------------------------------------------------------------------
(* Program constants *)

MAX_UPLOAD_CONTEXTS == 4
MAX_DOWNLOAD_CONTEXTS == 4
TOKEN_SIZE == 32
MAX_JSON_PAYLOAD_SIZE == 4096
DECODED_PATH_SIZE == 256
APP_BOOSTER_START == 0
UPLOAD_CHUNK_SIZE == 4096
DOWNLOAD_CHUNK_SIZE == 2048

(* Bounds of the model *)

\* Bytes per chunk in the scaled transfer instances (the firmware's values
\* are UPLOAD_CHUNK_SIZE = 4096 and DOWNLOAD_CHUNK_SIZE = 2048).
UlChunk == 2
DlChunk == 2
\* Largest chunk index a client sends.
MaxChunk == 1
\* The words of a command's payload buffer (MAX_PROTOCOL_PAYLOAD_SIZE bytes
\* in the program), the commands the host sends, the calls of mngr_loop.
PayloadWords == 2
MaxCommands == 3
MaxCalls == 3
\* The longest string given to url_decode and the largest buffer it fills.
MaxIn == 4
MaxOut == 5
\* The sizes of the fields of download_url_components_t and download_file_t
\* (protocol, host, uri; url, filename), scaled down, and the longest URL
\* given to parseUrl.
ProtocolSize == 3
HostSize == 3
UriSize == 5
FileUrlSize == 7
FilenameSize == 12
MaxUrl == 7
\* The most bytes left in a file from the place a download chunk is read at.
MaxLeft == 4200
\* The size of decoded_folder in cgi_download (256 in the program) and
\* DOWNLOAD_BUFFLINE_SIZE, scaled down; the most bytes a download receives.
FolderSize == 4
\* The buffers of the folder operations: df[256] for the decoded folder,
\* ds[128] and dd[128] for the decoded names.
DfSize == 8
DsSize == 6
BufflineSize == 8
MaxReceived == 2
\* The calls of free_upload_ctx and free_download_ctx in a run.
MaxFrees == 3
\* The requests of a run that uploads and downloads side by side.
MaxRequests == 9
\* The chunk indices of the offset calculations: a few around each multiple
\* of OfsStride, OfsSteps multiples.
OfsStride == 32768
OfsSteps == 66

-----------------------------------------------------------------------------
(* Characters *)

NUL == 0
Min(a, b) == IF a < b THEN a ELSE b
Max(a, b) == IF a > b THEN a ELSE b

\* in[i] of a C string: the terminator follows the last character.
At(in, i) == IF i >= 1 /\ i <= Len(in) THEN in[i] ELSE NUL

\* The string a NUL-terminated buffer holds: the bytes before the first NUL.
RECURSIVE CStrFrom(_, _)
CStrFrom(buf, i) ==
  IF i > Len(buf) \/ buf[i] = NUL THEN SubSeq(buf, 1, i - 1)
  ELSE CStrFrom(buf, i + 1)
CStr(buf) == CStrFrom(buf, 1)

IsXDigit(c) ==
  \/ c >= 48 /\ c <= 57
  \/ c >= 65 /\ c <= 70
  \/ c >= 97 /\ c <= 102
ToUpper(c) == IF c >= 97 /\ c <= 122 THEN c - 32 ELSE c
\* HexVal without toupper: a lower-case digit keeps its own code.
HexVal_keeps_case(c) == IF c >= 65 THEN c - 65 + 10 ELSE c - 48
HexVal(c) == IF c >= 65 THEN ToUpper(c) - 65 + 10 ELSE c - 48

\* The loop of url_decode from read position i, with out written so far.
RECURSIVE url_decode_loop(_, _, _, _)
url_decode_loop(in, i, out, outLen) ==
  IF At(in, i) = NUL \/ ~(Len(out) < outLen - 1) THEN out
  ELSE IF in[i] = 37 /\ IsXDigit(At(in, i + 1)) /\ IsXDigit(At(in, i + 2))
    THEN url_decode_loop(in, i + 3,
           Append(out, (HexVal(in[i + 1]) * 16 + HexVal(in[i + 2])) % 256),
           outLen)
  ELSE IF in[i] = 43
    THEN url_decode_loop(in, i + 1, Append(out, 32), outLen)
  ELSE url_decode_loop(in, i + 1, Append(out, in[i]), outLen)

\* url_decode(in, out, outLen) for non-NULL in and out: the return value and
\* the string left in out.
url_decode(in, outLen) ==
  IF outLen = 0 THEN [ok |-> FALSE, out |-> <<>>]
  ELSE [ok |-> TRUE, out |-> CStr(url_decode_loop(in, 1, <<>>, outLen))]

\* A pointer to a string or a buffer, or the null pointer.
NullPtr == [null |-> TRUE]
Ptr(s) == [at |-> s]
IsNullPtr(p) == "null" \in DOMAIN p

\* url_decode(in, out, outLen) on the buffer itself: in and out may be NULL,
\* out points to outLen bytes of whatever was there; the return value and
\* the buffer afterwards (the decoded bytes, the terminator, the rest
\* untouched).
url_decode_buf(in, out, outLen) ==
  IF IsNullPtr(in) \/ IsNullPtr(out) \/ outLen = 0 THEN [ok |-> FALSE, out |-> out]
  ELSE LET written == url_decode_loop(in.at, 1, <<>>, outLen)
       IN  [ok |-> TRUE,
            out |-> Ptr([k \in 1..Len(out.at) |->
                           IF k <= Len(written) THEN written[k]
                           ELSE IF k = Len(written) + 1 THEN NUL
                           ELSE out.at[k]])]

-----------------------------------------------------------------------------
(* The FAT volume (FatFs), as far as the handlers use it *)

Slash == 47
RECURSIVE LastSlash(_, _)
LastSlash(p, i) == IF i = 0 \/ p[i] = Slash THEN i ELSE LastSlash(p, i - 1)
\* The directory part of a path; <<>> is the root directory.
ParentOf(p) == SubSeq(p, 1, LastSlash(p, Len(p)) - 1)

NoNode == [kind |-> "none", rdo |-> FALSE, hid |-> FALSE, data |-> <<>>]
EmptyFile == [kind |-> "file", rdo |-> FALSE, hid |-> FALSE, data |-> <<>>]
EmptyDir == [kind |-> "dir", rdo |-> FALSE, hid |-> FALSE, data |-> <<>>]

Kind(vol, p) ==
  IF p = <<>> THEN "dir" ELSE IF p \in DOMAIN vol THEN vol[p].kind ELSE "none"
Children(vol, p) ==
  {c \in DOMAIN vol : vol[c].kind # "none" /\ c # <<>> /\ ParentOf(c) = p}

\* f_open(&fil, path, FA_WRITE | FA_CREATE_ALWAYS): the result code.
f_open_write_res(vol, p) ==
  IF p = <<>> \/ LastSlash(p, Len(p)) = Len(p) THEN "FR_INVALID_NAME"
  ELSE IF Kind(vol, ParentOf(p)) # "dir" \/ p \notin DOMAIN vol THEN "FR_NO_PATH"
  ELSE IF vol[p].kind = "dir" \/ vol[p].rdo THEN "FR_DENIED"
  ELSE "FR_OK"

\* f_open(&fil, path, FA_READ): the result code.
f_open_read_res(vol, p) ==
  IF p = <<>> \/ LastSlash(p, Len(p)) = Len(p) THEN "FR_INVALID_NAME"
  ELSE IF Kind(vol, ParentOf(p)) # "dir" THEN "FR_NO_PATH"
  ELSE IF Kind(vol, p) # "file" THEN "FR_NO_FILE"
  ELSE "FR_OK"

\* A FIL object: closed, or open on a path with a read/write pointer.
ClosedFil == [open |-> FALSE, path |-> <<>>, fptr |-> 0]
OpenFil(p) == [open |-> TRUE, path |-> p, fptr |-> 0]
\* f_close invalidates the object (closing a FIL that is not open returns
\* FR_INVALID_OBJECT); so does an f_open that fails.  The other fields of
\* an invalid FIL are never read.
f_close_leaves_open(fil) == fil
f_close(fil) == ClosedFil


-----------------------------------------------------------------------------
(* Transfer context pools *)

NULL == -1
UploadSlots == 0 .. MAX_UPLOAD_CONTEXTS - 1
DownloadSlots == 0 .. MAX_DOWNLOAD_CONTEXTS - 1
\* A zero-initialised context.
ZeroCtx == [token |-> <<>>, file |-> ClosedFil, in_use |-> FALSE]

\* strncpy(ctx.token, token, sizeof(ctx.token) - 1); ctx.token[sizeof - 1] = 0
TokenCopy(token) == SubSeq(token, 1, Min(Len(token), TOKEN_SIZE - 1))

\* The first slot from i on that is in use and holds token (strcmp == 0).
RECURSIVE FindFrom(_, _, _, _)
FindFrom(pool, n, token, i) ==
  IF i >= n THEN NULL
  ELSE IF pool[i].in_use /\ pool[i].token = token THEN i
  ELSE FindFrom(pool, n, token, i + 1)

\* The first slot from i on that is not in use.
RECURSIVE FirstFreeFrom(_, _, _)
FirstFreeFrom(pool, n, i) ==
  IF i >= n THEN NULL
  ELSE IF ~pool[i].in_use THEN i
  ELSE FirstFreeFrom(pool, n, i + 1)

find_upload_ctx(token) ==
  FindFrom(upload_contexts, MAX_UPLOAD_CONTEXTS, token, 0)
find_download_ctx(token) ==
  FindFrom(download_contexts, MAX_DOWNLOAD_CONTEXTS, token, 0)

\* A scan that starts one slot too far.
alloc_upload_slot_skips == FirstFreeFrom(upload_contexts, MAX_UPLOAD_CONTEXTS, 1)
\* alloc_*_ctx: the slot it returns (NULL when none is free) ...
alloc_upload_slot == FirstFreeFrom(upload_contexts, MAX_UPLOAD_CONTEXTS, 0)
\* A scan of the other pool.
alloc_download_slot_shared == FirstFreeFrom(upload_contexts, MAX_UPLOAD_CONTEXTS, 0)
alloc_download_slot == FirstFreeFrom(download_contexts, MAX_DOWNLOAD_CONTEXTS, 0)
\* ... and the pool it leaves.
alloc_ctx(pool, i, token) ==
  IF i = NULL THEN pool
  ELSE [pool EXCEPT ![i].in_use = TRUE, ![i].token = TokenCopy(token)]

\* A release that closes the file and leaves the slot marked in use.
free_ctx_leaks(pool, i) ==
  IF pool[i].in_use THEN [pool EXCEPT ![i].file = f_close(@)] ELSE pool
\* free_upload_ctx / free_download_ctx on slot i of pool.
free_ctx(pool, i) ==
  IF pool[i].in_use
    THEN [pool EXCEPT ![i].file = f_close(@), ![i].in_use = FALSE]
    ELSE pool

-----------------------------------------------------------------------------
(* JSON responses and request parameters *)

Err(msg) == [error |-> msg]
Status(msg) == [status |-> msg]
IsError(r) == "error" \in DOMAIN r
IsStatus(r, msg) == "status" \in DOMAIN r /\ r.status = msg
Has(q, name) == name \in DOMAIN q

\* The observer of three consecutive requests to one pool: a start refused
\* because the pool is full (phase 1), an end or cancel that frees a context
\* (phase 2), a start that is accepted (phase 3).
MonStep(dir, op, resp) ==
  IF op = "start" /\ resp = Err("no context available")
    THEN [dir |-> dir, phase |-> 1]
  ELSE IF mon.phase = 1 /\ mon.dir = dir /\ op \in {"end", "cancel"} /\ ~IsError(resp)
    THEN [dir |-> dir, phase |-> 2]
  ELSE IF mon.phase = 2 /\ mon.dir = dir /\ op = "start" /\ ~IsError(resp)
    THEN [dir |-> dir, phase |-> 3]
  ELSE [dir |-> "", phase |-> 0]

\* The transfers a client holds open: a start that succeeded opens the one
\* of its token, an end or cancel that succeeded closes it.
LiveStep(dir, op, q, resp) ==
  IF IsError(resp) \/ ~Has(q, "token") THEN live
  ELSE IF op = "start" THEN live \cup {<<dir, q.token>>}
  ELSE IF op \in {"end", "cancel"} THEN live \ {<<dir, q.token>>}
  ELSE live

Served(dir, op, q, resp) ==
  /\ json_buff' = resp
  /\ req' = [dir |-> dir, op |-> op, q |-> q]
  /\ mon' = MonStep(dir, op, resp)
  /\ live' = LiveStep(dir, op, q, resp)
  /\ side' = side
  /\ UNCHANGED <<postVars, mngrVars, dlVars>>


-----------------------------------------------------------------------------
(* atoi and base64 (mbedtls) *)

IsSpace(c) == c = 32 \/ (c >= 9 /\ c <= 13)
IsDigit(c) == c >= 48 /\ c <= 57
RECURSIVE SkipSpace(_, _)
SkipSpace(s, i) == IF IsSpace(At(s, i)) THEN SkipSpace(s, i + 1) ELSE i
RECURSIVE AtoiDigits(_, _, _)
AtoiDigits(s, i, acc) ==
  IF IsDigit(At(s, i)) THEN AtoiDigits(s, i + 1, acc * 10 + (s[i] - 48)) ELSE acc
\* atoi(s): optional white space, an optional sign, then the leading digits.
atoi(s) ==
  LET i == SkipSpace(s, 1)
  IN  IF At(s, i) = 45 THEN 0 - AtoiDigits(s, i + 1, 0)
      ELSE IF At(s, i) = 43 THEN AtoiDigits(s, i + 1, 0)
      ELSE AtoiDigits(s, i, 0)

\* The base64 alphabet: value 0..63 -> character ('=', 61, is the padding).
B64Char(v) ==
  IF v < 26 THEN 65 + v
  ELSE IF v < 52 THEN 97 + (v - 26)
  ELSE IF v < 62 THEN 48 + (v - 52)
  ELSE IF v = 62 THEN 43 ELSE 47
\* character -> value; 64 for '=', 127 for a character outside the alphabet.
B64Val(c) ==
  IF c >= 65 /\ c <= 90 THEN c - 65
  ELSE IF c >= 97 /\ c <= 122 THEN c - 97 + 26
  ELSE IF c >= 48 /\ c <= 57 THEN c - 48 + 52
  ELSE IF c = 43 THEN 62
  ELSE IF c = 47 THEN 63
  ELSE IF c = 61 THEN 64 ELSE 127

RECURSIVE base64_encode_from(_, _)
base64_encode_from(src, i) ==
  IF i > Len(src) THEN <<>>
  ELSE LET c1 == src[i]
           c2 == At(src, i + 1)
           c3 == At(src, i + 2)
       IN  IF i + 2 <= Len(src)
             THEN << B64Char((c1 \div 4) % 64),
                     B64Char(((c1 % 4) * 16 + c2 \div 16) % 64),
                     B64Char(((c2 % 16) * 4 + c3 \div 64) % 64),
                     B64Char(c3 % 64) >> \o base64_encode_from(src, i + 3)
             ELSE << B64Char((c1 \div 4) % 64),
                     B64Char(((c1 % 4) * 16 + c2 \div 16) % 64),
                     IF i + 1 <= Len(src) THEN B64Char(((c2 % 16) * 4) % 64) ELSE 61,
                     61 >>
\* mbedtls_base64_encode(dst, dlen, &olen, src, slen): the return value and
\* the text written (dlen must hold the text and its terminator).
mbedtls_base64_encode(dlen, src) ==
  LET n == 4 * ((Len(src) \div 3) + (IF Len(src) % 3 # 0 THEN 1 ELSE 0))
  IN  IF Len(src) = 0 THEN [ret |-> "OK", out |-> <<>>]
      ELSE IF dlen < n + 1 THEN [ret |-> "BUFFER_TOO_SMALL", out |-> <<>>]
      ELSE [ret |-> "OK", out |-> base64_encode_from(src, 1)]

\* mbedtls_base64_decode, first pass: the text is valid when every character
\* is of the alphabet, '=' comes only at the end and at most twice.
RECURSIVE B64ValidFrom(_, _, _)
B64ValidFrom(s, i, pads) ==
  IF i > Len(s) THEN TRUE
  ELSE IF s[i] = 61 THEN pads + 1 <= 2 /\ B64ValidFrom(s, i + 1, pads + 1)
  ELSE B64Val(s[i]) < 64 /\ pads = 0 /\ B64ValidFrom(s, i + 1, 0)
NumPads(s) == Cardinality({i \in 1 .. Len(s) : s[i] = 61})
\* second pass: each group of four characters gives three bytes, less one
\* per '=' in it; an incomplete last group gives nothing.
RECURSIVE base64_decode_from(_, _)
base64_decode_from(s, i) ==
  IF i + 3 > Len(s) THEN <<>>
  ELSE LET v(k) == B64Val(s[i + k]) % 64
           x == ((v(0) * 64 + v(1)) * 64 + v(2)) * 64 + v(3)
           j == 3 - Cardinality({k \in 0 .. 3 : s[i + k] = 61})
           b == << (x \div 65536) % 256, (x \div 256) % 256, x % 256 >>
       IN  SubSeq(b, 1, j) \o base64_decode_from(s, i + 4)
\* mbedtls_base64_decode(dst, dlen, &olen, src, slen)
mbedtls_base64_decode(dlen, s) ==
  LET n == (6 * (Len(s) \div 8)) + ((6 * (Len(s) % 8) + 7) \div 8) - NumPads(s)
  IN  IF ~B64ValidFrom(s, 1, 0) THEN [ret |-> "INVALID_CHARACTER", out |-> <<>>]
      ELSE IF Len(s) = 0 THEN [ret |-> "OK", out |-> <<>>]
      ELSE IF dlen < n THEN [ret |-> "BUFFER_TOO_SMALL", out |-> <<>>]
      ELSE [ret |-> "OK", out |-> base64_decode_from(s, 1)]


-----------------------------------------------------------------------------
(* File data *)

\* f_lseek to ofs on a file open for writing: a position past the end
\* extends the file; the added bytes hold whatever the clusters held (fill).
Extend(data, ofs, fill) ==
  IF ofs > Len(data) THEN data \o [k \in 1 .. (ofs - Len(data)) |-> fill] ELSE data
\* f_write of bytes at position pos (pos <= Len(data)).
WriteAt_appends(data, pos, bytes) == data \o bytes
WriteAt(data, pos, bytes) ==
  SubSeq(data, 1, pos) \o bytes \o SubSeq(data, pos + Len(bytes) + 1, Len(data))
\* f_read of up to n bytes at position pos.
ReadAt(data, pos, n) == SubSeq(data, pos + 1, Min(Len(data), pos + n))
\* The bytes f_write stores: all of them, one less when the volume runs
\* full, none on a disk error.
Written_whole(bytes, io) == bytes
Written(bytes, io) ==
  IF io = "ok" THEN bytes
  ELSE IF io = "short" THEN SubSeq(bytes, 1, Max(Len(bytes) - 1, 0))
  ELSE <<>>

-----------------------------------------------------------------------------
(* Upload handlers *)

cgi_upload_start(q) ==
  IF ~(Has(q, "token") /\ Has(q, "fullpath")) THEN
    /\ Served("upload", "start", q, Err("missing parameters"))
    /\ UNCHANGED <<upload_contexts, download_contexts, fs>>
  ELSE
    LET d == url_decode(q.fullpath, DECODED_PATH_SIZE)
        ctx == alloc_upload_slot
        res == f_open_write_res(fs, d.out)
        allocated == alloc_ctx(upload_contexts, ctx, q.token)
    IN  IF ~d.ok THEN
          /\ Served("upload", "start", q, Err("invalid path"))
          /\ UNCHANGED <<upload_contexts, download_contexts, fs>>
        ELSE IF ctx = NULL THEN
          /\ Served("upload", "start", q, Err("no context available"))
          /\ UNCHANGED <<upload_contexts, download_contexts, fs>>
        ELSE IF res # "FR_OK" THEN
          /\ upload_contexts' =
               free_ctx([allocated EXCEPT ![ctx].file = f_close(@)], ctx)
          /\ Served("upload", "start", q, Err("cannot open file"))
          /\ UNCHANGED <<download_contexts, fs>>
        ELSE
          /\ upload_contexts' = [allocated EXCEPT ![ctx].file = OpenFil(d.out)]
          /\ fs' = [fs EXCEPT ![d.out] = EmptyFile]
          /\ Served("upload", "start", q,
                    [status |-> "started", chunkSize |-> UlChunk, method |-> "POST"])
          /\ UNCHANGED download_contexts

\* The write position of chunk index `chunk`: (DWORD)(chunk * UPLOAD_CHUNK_SIZE)
UploadOffset(chunk) == chunk * UlChunk

cgi_upload_chunk(q, io, fill) ==
  LET ctx == IF Has(q, "token") THEN find_upload_ctx(q.token) ELSE NULL
  IN  IF ctx = NULL \/ ~Has(q, "chunk") \/ ~Has(q, "payload") THEN
        /\ Served("upload", "chunk", q, Err("invalid parameters"))
        /\ UNCHANGED <<upload_contexts, download_contexts, fs>>
      ELSE
        LET chunk == atoi(q.chunk)
            dp == url_decode(q.payload, Len(q.payload) + 1)
            outLen == (Len(dp.out) * 3) \div 4
            dec == mbedtls_base64_decode(outLen, dp.out)
            fil == upload_contexts[ctx].file
            ofs == UploadOffset(chunk)
            old == Extend(fs[fil.path].data, ofs, fill)
            stored == Written(dec.out, io)
        IN  IF ~dp.ok THEN
              /\ Served("upload", "chunk", q, Err("invalid payload encoding"))
              /\ UNCHANGED <<upload_contexts, download_contexts, fs>>
            ELSE IF dec.ret # "OK" THEN
              /\ Served("upload", "chunk", q, Err("invalid base64"))
              /\ UNCHANGED <<upload_contexts, download_contexts, fs>>
            ELSE
              /\ fs' = [fs EXCEPT ![fil.path].data = WriteAt(old, ofs, stored)]
              /\ upload_contexts' =
                   [upload_contexts EXCEPT ![ctx].file.fptr = ofs + Len(stored)]
              /\ Served("upload", "chunk", q,
                        IF io = "err" \/ Len(stored) # Len(dec.out)
                          THEN Err("write failed") ELSE Status("chunk_ok"))
              /\ UNCHANGED download_contexts

cgi_upload_end(q) ==
  LET ctx == IF Has(q, "token") THEN find_upload_ctx(q.token) ELSE NULL
  IN  IF ctx = NULL THEN
        /\ Served("upload", "end", q, Err("invalid token"))
        /\ UNCHANGED <<upload_contexts, download_contexts, fs>>
      ELSE
        /\ upload_contexts' = free_ctx(upload_contexts, ctx)
        /\ Served("upload", "end", q, Status("completed"))
        /\ UNCHANGED <<download_contexts, fs>>

cgi_upload_cancel(q) ==
  LET ctx == IF Has(q, "token") THEN find_upload_ctx(q.token) ELSE NULL
  IN  IF ctx = NULL THEN
        /\ Served("upload", "cancel", q, Err("invalid token"))
        /\ UNCHANGED <<upload_contexts, download_contexts, fs>>
      ELSE
        /\ upload_contexts' = free_ctx(upload_contexts, ctx)
        /\ Served("upload", "cancel", q, Status("cancelled"))
        /\ UNCHANGED <<download_contexts, fs>>

-----------------------------------------------------------------------------
(* Download handlers *)

cgi_download_start(q) ==
  IF ~(Has(q, "token") /\ Has(q, "fullpath")) THEN
    /\ Served("download", "start", q, Err("missing parameters"))
    /\ UNCHANGED <<upload_contexts, download_contexts, fs>>
  ELSE
    LET d == url_decode(q.fullpath, DECODED_PATH_SIZE)
        ctx == alloc_download_slot
        res == f_open_read_res(fs, d.out)
        allocated == alloc_ctx(download_contexts, ctx, q.token)
    IN  IF ~d.ok THEN
          /\ Served("download", "start", q, Err("invalid path"))
          /\ UNCHANGED <<upload_contexts, download_contexts, fs>>
        ELSE IF ctx = NULL THEN
          /\ Served("download", "start", q, Err("no context available"))
          /\ UNCHANGED <<upload_contexts, download_contexts, fs>>
        ELSE IF res # "FR_OK" THEN
          /\ download_contexts' =
               free_ctx([allocated EXCEPT ![ctx].file = f_close(@)], ctx)
          /\ Served("download", "start", q, Err("cannot open file"))
          /\ UNCHANGED <<upload_contexts, fs>>
        ELSE
          /\ download_contexts' = [allocated EXCEPT ![ctx].file = OpenFil(d.out)]
          /\ Served("download", "start", q,
                    [status |-> "started", chunkSize |-> DlChunk,
                     fileSize |-> Len(fs[d.out].data)])
          /\ UNCHANGED <<upload_contexts, fs>>

\* The read position of chunk index `chunk`: (DWORD)chunk * DOWNLOAD_CHUNK_SIZE
DownloadOffset(chunk) == chunk * DlChunk

\* A handler that releases the context when the read fails.
cgi_download_chunk_frees(q, io) ==
  LET ctx == IF Has(q, "token") THEN find_download_ctx(q.token) ELSE NULL
  IN  IF ctx = NULL \/ ~Has(q, "chunk") THEN
        /\ Served("download", "chunk", q, Err("invalid parameters"))
        /\ UNCHANGED <<upload_contexts, download_contexts, fs>>
      ELSE
        LET chunk == atoi(q.chunk)
            fil == download_contexts[ctx].file
            data == fs[fil.path].data
            ofs == Min(DownloadOffset(chunk), Len(data))
            rawbuf == ReadAt(data, ofs, DlChunk)
            enc == mbedtls_base64_encode(MAX_JSON_PAYLOAD_SIZE, rawbuf)
        IN  IF io # "ok" THEN
              /\ download_contexts' = free_ctx(download_contexts, ctx)
              /\ Served("download", "chunk", q, Err("read failed"))
              /\ UNCHANGED <<upload_contexts, fs>>
            ELSE
              /\ download_contexts' =
                   [download_contexts EXCEPT ![ctx].file.fptr = ofs + Len(rawbuf)]
              /\ Served("download", "chunk", q,
                        IF enc.ret # "OK" THEN Err("base64 encode failed")
                        ELSE [status |-> "chunk", length |-> Len(rawbuf),
                              data |-> enc.out])
              /\ UNCHANGED <<upload_contexts, fs>>
cgi_download_chunk(q, io) ==
  LET ctx == IF Has(q, "token") THEN find_download_ctx(q.token) ELSE NULL
  IN  IF ctx = NULL \/ ~Has(q, "chunk") THEN
        /\ Served("download", "chunk", q, Err("invalid parameters"))
        /\ UNCHANGED <<upload_contexts, download_contexts, fs>>
      ELSE
        LET chunk == atoi(q.chunk)
            fil == download_contexts[ctx].file
            data == fs[fil.path].data
            \* f_lseek on a file open for reading stops at the end of the file
            ofs == Min(DownloadOffset(chunk), Len(data))
            rawbuf == ReadAt(data, ofs, DlChunk)
            enc == mbedtls_base64_encode(MAX_JSON_PAYLOAD_SIZE, rawbuf)
        IN  IF io # "ok" THEN
              /\ download_contexts' =
                   [download_contexts EXCEPT ![ctx].file.fptr = ofs]
              /\ Served("download", "chunk", q, Err("read failed"))
              /\ UNCHANGED <<upload_contexts, fs>>
            ELSE
              /\ download_contexts' =
                   [download_contexts EXCEPT ![ctx].file.fptr = ofs + Len(rawbuf)]
              /\ Served("download", "chunk", q,
                        IF enc.ret # "OK" THEN Err("base64 encode failed")
                        ELSE [status |-> "chunk", length |-> Len(rawbuf),
                              data |-> enc.out])
              /\ UNCHANGED <<upload_contexts, fs>>

cgi_download_end(q) ==
  LET ctx == IF Has(q, "token") THEN find_download_ctx(q.token) ELSE NULL
  IN  IF ctx = NULL THEN
        /\ Served("download", "end", q, Err("invalid token"))
        /\ UNCHANGED <<upload_contexts, download_contexts, fs>>
      ELSE
        /\ download_contexts' = free_ctx(download_contexts, ctx)
        /\ Served("download", "end", q, Status("completed"))
        /\ UNCHANGED <<upload_contexts, fs>>

cgi_download_cancel(q) ==
  LET ctx == IF Has(q, "token") THEN find_download_ctx(q.token) ELSE NULL
  IN  IF ctx = NULL THEN
        /\ Served("download", "cancel", q, Err("invalid token"))
        /\ UNCHANGED <<upload_contexts, download_contexts, fs>>
      ELSE
        /\ download_contexts' = free_ctx(download_contexts, ctx)
        /\ Served("download", "cancel", q, Status("cancelled"))
        /\ UNCHANGED <<upload_contexts, fs>>


-----------------------------------------------------------------------------
(* The raw-binary upload path: lwIP's POST callbacks *)

\* "/upload_chunk.cgi", "token=" and "chunk="
UploadChunkUri ==
  <<47, 117, 112, 108, 111, 97, 100, 95, 99, 104, 117, 110, 107, 46, 99, 103, 105>>
ParamToken == <<116, 111, 107, 101, 110, 61>>
ParamChunk == <<99, 104, 117, 110, 107, 61>>

\* strchr / strstr from position i on: the position found, 0 for NULL.
RECURSIVE StrChr(_, _, _)
StrChr(s, c, i) ==
  IF i > Len(s) THEN 0 ELSE IF s[i] = c THEN i ELSE StrChr(s, c, i + 1)
RECURSIVE StrStr(_, _, _)
StrStr(s, pat, i) ==
  IF i + Len(pat) - 1 > Len(s) THEN 0
  ELSE IF SubSeq(s, i, i + Len(pat) - 1) = pat THEN i
  ELSE StrStr(s, pat, i + 1)

\* The token copied out of the query string into buf[32]: up to the next
\* '&', the end of the text or 31 characters.
RECURSIVE PostToken(_, _, _)
PostToken(s, t, i) ==
  IF t > Len(s) \/ s[t] = 38 \/ i >= TOKEN_SIZE - 1 THEN <<>>
  ELSE <<s[t]>> \o PostToken(s, t + 1, i + 1)

\* f_lseek on a file open for writing, and f_write at the file pointer; an
\* object that is not open is refused (FR_INVALID_OBJECT) and nothing moves.
f_lseek(vol, fil, ofs, fill) ==
  IF ~fil.open THEN [vol |-> vol, fil |-> fil]
  ELSE [vol |-> [vol EXCEPT ![fil.path].data = Extend(@, ofs, fill)],
        fil |-> [fil EXCEPT !.fptr = ofs]]
f_write(vol, fil, bytes, io, fill) ==
  IF ~fil.open THEN [vol |-> vol, fil |-> fil]
  ELSE LET stored == Written(bytes, io)
       IN  [vol |-> [vol EXCEPT ![fil.path].data =
                       WriteAt(Extend(@, fil.fptr, fill), fil.fptr, stored)],
            fil |-> [fil EXCEPT !.fptr = @ + Len(stored)]]

\* What the observers note of a POST callback.
PostObserved(op, conn) ==
  /\ req' = [dir |-> "upload", op |-> op, q |-> [connection |-> conn]]
  /\ mon' = [dir |-> "", phase |-> 0]
  /\ UNCHANGED <<live, side, download_contexts, mngrVars, dlVars>>

\* httpd_post_begin; lwIP goes on to the data and to httpd_post_finished
\* when it returns ERR_OK, and refuses the request otherwise.
httpd_post_begin(connection, uri, fill) ==
  LET qs == StrChr(uri, 63, 1)
      t == IF qs = 0 THEN 0 ELSE StrStr(uri, ParamToken, qs)
      c == IF qs = 0 THEN 0 ELSE StrStr(uri, ParamChunk, qs)
      ctx == IF t = 0 THEN current_chunk_ctx
             ELSE find_upload_ctx(PostToken(uri, t + 6, 0))
      idx == IF c = 0 THEN current_chunk_idx
             ELSE atoi(SubSeq(uri, c + 6, Len(uri)))
      sought == f_lseek(fs, upload_contexts[ctx].file, UploadOffset(idx), fill)
  IN  /\ PostObserved("post_begin", connection)
      /\ UNCHANGED json_buff
      /\ IF Len(uri) < 17 \/ SubSeq(uri, 1, 17) # UploadChunkUri \/ qs = 0 THEN
           UNCHANGED <<upload_contexts, fs, postVars>>
         ELSE
           /\ current_chunk_ctx' = ctx
           /\ current_chunk_idx' = idx
           /\ IF ctx = NULL THEN
                UNCHANGED <<upload_contexts, fs, current_connection, posts>>
              ELSE
                /\ fs' = sought.vol
                /\ upload_contexts' = [upload_contexts EXCEPT ![ctx].file = sought.fil]
                /\ current_connection' = connection
                /\ posts' = posts \cup {connection}

\* The segments of a pbuf chain, written one after the other.
RECURSIVE WriteSegments(_, _, _, _, _)
WriteSegments(vol, fil, p, ios, fill) ==
  IF p = <<>> THEN [vol |-> vol, fil |-> fil]
  ELSE LET w == f_write(vol, fil, Head(p), Head(ios), fill)
       IN  WriteSegments(w.vol, w.fil, Tail(p), Tail(ios), fill)

\* httpd_post_receive_data with a pbuf chain p (never NULL when lwIP calls).
httpd_post_receive_data(connection, p, ios, fill) ==
  /\ connection \in posts
  /\ PostObserved("post_receive_data", connection)
  /\ UNCHANGED <<json_buff, postVars>>
  /\ IF connection = current_connection /\ current_chunk_ctx # NULL THEN
       LET w == WriteSegments(fs, upload_contexts[current_chunk_ctx].file, p, ios, fill)
       IN  /\ fs' = w.vol
           /\ upload_contexts' = [upload_contexts EXCEPT ![current_chunk_ctx].file = w.fil]
     ELSE
       UNCHANGED <<upload_contexts, fs>>

httpd_post_finished(connection) ==
  /\ connection \in posts
  /\ PostObserved("post_finished", connection)
  /\ current_chunk_ctx' = NULL
  /\ current_chunk_idx' = 0
  /\ json_buff' = Status("chunk_ok")
  /\ posts' = posts \ {connection}
  /\ UNCHANGED <<upload_contexts, fs, current_connection>>

-----------------------------------------------------------------------------
(* The host command mailbox (mngr.c): the DMA interrupt handler fills      *)
(* lastProtocol, mngr_loop consumes it.  The interrupt can arrive between  *)
(* any two steps of mngr_loop; mngr_loop never runs inside the handler.    *)
(* Payloads are sequences of 32-bit words; the first word of a payload is  *)
(* the command's random token.                                             *)

\* TransmissionProtocol lastProtocol, a static object: all zero at start.
ZeroProtocol ==
  [command_id |-> 0, payload_size |-> 0, bytes_read |-> 0,
   final_checksum |-> 0, payload |-> [i \in 1..PayloadWords |-> 0]]

\* mngr_loop between two calls: no position, no locals.
IdleLoop == [pc |-> "idle", randomToken |-> 0, commandId |-> 0]

\* Nothing sent by the host computer yet.
NoHost == [sent |-> 0, box |-> 0, calls |-> 0, at |-> <<>>, disp |-> <<>>]

\* The statics of mngr.c and the shared memory before mngr_preinit.
MngrInit ==
  /\ lastProtocol = ZeroProtocol
  /\ lastProtocolValid = FALSE
  /\ startBooster = FALSE
  /\ memoryRandomTokenAddress = 0
  /\ shared = [token |-> 0, seed |-> 0]
  /\ mngr = IdleLoop
  /\ host = NoHost

\* memcpy(dst, src, n) on word buffers.
memcpy(dst, src, n) == [i \in 1..Len(dst) |-> IF i <= n THEN src[i] ELSE dst[i]]

\* TPROTO_GET_RANDOM_TOKEN: the first word of the payload.
TPROTO_GET_RANDOM_TOKEN(payload) == payload[1]

\* mngr_preinit, called once by mngr_init before its loop: the addresses
\* of the token and of its seed, and the first seed, a rand() value.
mngr_preinit(seed) ==
  /\ memoryRandomTokenAddress = 0
  /\ memoryRandomTokenAddress' = 1
  /\ shared' = [shared EXCEPT !.seed = seed]
  /\ UNCHANGED <<lastProtocol, lastProtocolValid, startBooster, mngr, host>>

\* The size handed to memcpy, lines 42-45: payload_size, clamped to the
\* size of the payload buffer.
ClampSize_none(payload_size) == payload_size
ClampSize(payload_size) ==
  IF payload_size > PayloadWords THEN PayloadWords ELSE payload_size

\* handle_protocol_command: the callback of a frame whose checksum matches.
\* The observer numbers the command and notes where mngr_loop was.
handle_protocol_command(protocol) ==
  LET size == ClampSize(protocol.payload_size)
  IN  /\ lastProtocol' =
           [command_id |-> protocol.command_id,
            payload_size |-> protocol.payload_size,
            bytes_read |-> protocol.bytes_read,
            final_checksum |-> protocol.final_checksum,
            payload |-> memcpy(lastProtocol.payload, protocol.payload, size)]
      /\ lastProtocolValid' = TRUE
      /\ host' = [host EXCEPT !.sent = @ + 1, !.box = host.sent + 1,
                              !.at = Append(@, [pc |-> mngr.pc, call |-> host.calls])]
      /\ UNCHANGED <<startBooster, memoryRandomTokenAddress, shared, mngr>>

\* handle_protocol_checksum_error: a log line.
handle_protocol_checksum_error(protocol) ==
  UNCHANGED mngrVars

\* addr & 0x00010000 (line 70): the ROM3 signal, bit 16 of the address.
ROM3_SIGNAL == 65536
ADDRESS_HIGH_BIT == 32768
Rom3Signal(addr) == (addr \div ROM3_SIGNAL) % 2 = 1
\* A value with the high bit of the low word cleared.
addr_lsb_stripped(addr) == addr % ADDRESS_HIGH_BIT
\* (uint16_t)(addr ^ ADDRESS_HIGH_BIT) (line 72): bit 15 inverted, the
\* bits above the low word cut off.
addr_lsb(addr) ==
  IF (addr \div ADDRESS_HIGH_BIT) % 2 = 1
    THEN (addr - ADDRESS_HIGH_BIT) % (2 * ADDRESS_HIGH_BIT)
    ELSE (addr + ADDRESS_HIGH_BIT) % (2 * ADDRESS_HIGH_BIT)

\* mngr_dma_irq_handler_lookup: on the ROM3 signal (bit 16 of the address)
\* the parser takes the address; `parsed` is what it then calls back: a
\* command, a checksum error, or nothing while the frame is incomplete.
mngr_dma_irq_handler_lookup(addr, parsed) ==
  IF Rom3Signal(addr) /\ parsed.kind = "command"
    THEN handle_protocol_command(parsed.protocol)
  ELSE IF Rom3Signal(addr) /\ parsed.kind = "checksum"
    THEN handle_protocol_checksum_error(parsed.protocol)
  ELSE UNCHANGED mngrVars

\* A call that goes on to the command whatever the flag says.
mngr_loop_valid_always ==
  /\ mngr.pc = "idle"
  /\ ~startBooster
  /\ memoryRandomTokenAddress # 0
  /\ mngr' = [mngr EXCEPT !.pc = "token"]
  /\ host' = [host EXCEPT !.calls = @ + 1]
  /\ UNCHANGED <<lastProtocol, lastProtocolValid, startBooster,
                 memoryRandomTokenAddress, shared>>
\* mngr_loop, line 100: the test of lastProtocolValid.  mngr_init calls
\* mngr_loop from `while (!startBooster)`, after mngr_preinit.
mngr_loop_valid ==
  /\ mngr.pc = "idle"
  /\ ~startBooster
  /\ memoryRandomTokenAddress # 0
  /\ mngr' = [mngr EXCEPT !.pc = IF lastProtocolValid THEN "token" ELSE "clear"]
  /\ host' = [host EXCEPT !.calls = @ + 1]
  /\ UNCHANGED <<lastProtocol, lastProtocolValid, startBooster,
                 memoryRandomTokenAddress, shared>>

\* mngr_loop, lines 104-106: the random token and the command id.
mngr_loop_token ==
  /\ mngr.pc = "token"
  /\ mngr' = [pc |-> "switch",
              randomToken |-> TPROTO_GET_RANDOM_TOKEN(lastProtocol.payload),
              commandId |-> lastProtocol.command_id]
  /\ UNCHANGED <<lastProtocol, lastProtocolValid, startBooster,
                 memoryRandomTokenAddress, shared, host>>

\* A switch that takes every command for the booster command.
mngr_loop_switch_any ==
  /\ mngr.pc = "switch"
  /\ startBooster' = TRUE
  /\ mngr' = [mngr EXCEPT !.pc = "reply"]
  /\ host' = [host EXCEPT !.disp = Append(@, [cmd |-> host.box, call |-> host.calls,
                                              id |-> lastProtocol.command_id,
                                              token |-> mngr.randomToken])]
  /\ UNCHANGED <<lastProtocol, lastProtocolValid, memoryRandomTokenAddress, shared>>
\* mngr_loop, lines 144-153: the switch on lastProtocol.command_id.  The
\* observer notes which command's id it switched on.
mngr_loop_switch ==
  /\ mngr.pc = "switch"
  /\ startBooster' = IF lastProtocol.command_id = APP_BOOSTER_START THEN TRUE
                     ELSE startBooster
  /\ mngr' = [mngr EXCEPT !.pc = "reply"]
  /\ host' = [host EXCEPT !.disp = Append(@, [cmd |-> host.box, call |-> host.calls,
                                              id |-> lastProtocol.command_id,
                                              token |-> mngr.randomToken])]
  /\ UNCHANGED <<lastProtocol, lastProtocolValid, memoryRandomTokenAddress, shared>>

\* mngr_loop, lines 154-165: the token goes back to the shared memory,
\* with a new seed.
mngr_loop_reply(seed) ==
  /\ mngr.pc = "reply"
  /\ shared' = IF memoryRandomTokenAddress # 0
               THEN [token |-> mngr.randomToken, seed |-> seed]
               ELSE shared
  /\ mngr' = [mngr EXCEPT !.pc = "clear"]
  /\ UNCHANGED <<lastProtocol, lastProtocolValid, startBooster,
                 memoryRandomTokenAddress, host>>

\* mngr_loop, line 167: the flag is cleared, a command was there or not.
mngr_loop_clear ==
  /\ mngr.pc = "clear"
  /\ lastProtocolValid' = FALSE
  /\ mngr' = IdleLoop
  /\ UNCHANGED <<lastProtocol, startBooster, memoryRandomTokenAddress, shared, host>>

\* mngr_init, lines 281 and 360-376: `while (!startBooster)` is left when
\* the flag is set at its check, between two turns of the loop; the
\* firmware then resets the computer and jumps to the booster.
mngr_init_exit ==
  /\ mngr.pc = "idle"
  /\ startBooster
  /\ mngr' = [mngr EXCEPT !.pc = "booster"]
  /\ UNCHANGED <<lastProtocol, lastProtocolValid, startBooster,
                 memoryRandomTokenAddress, shared, host>>

-----------------------------------------------------------------------------
(* The download from the internet (download.c): its statics *)

\* download_url_components_t and download_file_t after memset(.., 0, ..).
ZeroComponents == [protocol |-> <<>>, host |-> <<>>, uri |-> <<>>]
ZeroFileUrl == [url |-> <<>>, filename |-> <<>>]

\* The statics of download.c at start.
DownloadInit ==
  /\ downloadStatus = "IDLE"
  /\ url = <<>>
  /\ dst_folder = <<>>
  /\ components = ZeroComponents
  /\ fileUrl = ZeroFileUrl
  /\ file = ClosedFil
  /\ request = [complete |-> FALSE, url |-> <<>>, hostname |-> <<>>, active |-> FALSE]

\* "://" and "default.bin".
SchemeSep == <<58, 47, 47>>
DefaultBin == <<100, 101, 102, 97, 117, 108, 116, 46, 98, 105, 110>>

\* strncpy(dst, src, size - 1); dst[size - 1] = 0 into a zeroed field.
StrNCpy(src, size) == SubSeq(src, 1, Min(Len(src), size - 1))
\* strrchr: the last place of c in s, or 0.
\* strchr in its place: the first place of c in s, or 0.
StrRChr_first(s, c, i) == StrChr(s, c, 1)
RECURSIVE StrRChr(_, _, _)
StrRChr(s, c, i) ==
  IF i < 1 THEN 0 ELSE IF s[i] = c THEN i ELSE StrRChr(s, c, i - 1)

\* The file name parseUrl takes from the uri it stored.
FileName(uri) ==
  LET lastSlash == StrRChr(uri, Slash, Len(uri))
      name == SubSeq(uri, lastSlash + 1, Len(uri))
  IN  IF name # <<>> THEN StrNCpy(name, FilenameSize)
      ELSE StrNCpy(DefaultBin, FilenameSize)

\* parseUrl(u, &components, &fileUrl): the return value and the two
\* structures afterwards.
parseUrl(u, comps, f) ==
  IF IsNullPtr(u) THEN [ret |-> -1, components |-> comps, file |-> f]
  ELSE
    LET s == u.at
        f0 == [url |-> StrNCpy(s, FileUrlSize), filename |-> <<>>]
        protocolEnd == StrStr(s, SchemeSep, 1)
        protocolLen == protocolEnd - 1
        hostStart == protocolEnd + 3
        uriStart == StrChr(s, Slash, hostStart)
        hostLen == uriStart - hostStart
        withProtocol == [ZeroComponents EXCEPT !.protocol = SubSeq(s, 1, protocolLen)]
        parsed ==
          IF uriStart # 0
          THEN [withProtocol EXCEPT
                  !.host = SubSeq(s, hostStart, uriStart - 1),
                  !.uri = StrNCpy(SubSeq(s, uriStart, Len(s)), UriSize)]
          ELSE [withProtocol EXCEPT
                  !.host = StrNCpy(SubSeq(s, hostStart, Len(s)), HostSize)]
    IN  IF protocolEnd = 0
          THEN [ret |-> -1, components |-> ZeroComponents, file |-> f0]
        ELSE IF protocolLen >= ProtocolSize
          THEN [ret |-> -1, components |-> ZeroComponents, file |-> f0]
        ELSE IF uriStart # 0 /\ hostLen >= HostSize
          THEN [ret |-> -1, components |-> withProtocol, file |-> f0]
        ELSE [ret |-> 0, components |-> parsed,
              file |-> [f0 EXCEPT !.filename = FileName(parsed.uri)]]

-----------------------------------------------------------------------------
(* Requests a client sends *)

\* Tokens "t1" and "t2".
T1 == <<116, 49>>
T2 == <<116, 50>>
\* Paths "/a" (a file), "/n" (no such file yet) and "/x/y" (no such folder).
PathA == <<47, 97>>
PathN == <<47, 110>>
PathXY == <<47, 120, 47, 121>>
\* The decimal text of a chunk index below 10.
ChunkStr(k) == <<48 + k>>
\* File bytes.
Bytes == {0, 255}
\* "TQ==", the base64 text of the byte 77.
PayloadM == <<84, 81, 61, 61>>

NoRequest == [none |-> TRUE]
NoClient == [phase |-> "idle"]
EmptyBuff == [text |-> <<>>]

StartReqs(tokens, paths) ==
  {[token |-> t, fullpath |-> p] : t \in tokens, p \in paths}
    \cup {[token |-> T1]}
TokenReqs(tokens) == {[token |-> t] : t \in tokens} \cup {NoRequest}
UploadChunkReqs(tokens, chunks, payloads) ==
  {[token |-> t, chunk |-> ChunkStr(c), payload |-> p] :
     t \in tokens, c \in chunks, p \in payloads}
    \cup {[token |-> T1, chunk |-> ChunkStr(0)]}
DownloadChunkReqs(tokens, chunks) ==
  {[token |-> t, chunk |-> ChunkStr(c)] : t \in tokens, c \in chunks}
    \cup {[token |-> T1]}

-----------------------------------------------------------------------------
(* The two pools under start, chunk, end and cancel requests.  The client   *)
(* of a run works one direction; the two pools share no state.             *)

PoolVolume == (PathA :> [kind |-> "file", rdo |-> FALSE, hid |-> FALSE, data |-> <<77, 0, 255>>])
                @@ (PathN :> NoNode)

InitPool ==
  /\ upload_contexts = [i \in UploadSlots |-> ZeroCtx]
  /\ download_contexts = [i \in DownloadSlots |-> ZeroCtx]
  /\ fs = PoolVolume
  /\ json_buff = EmptyBuff
  /\ side \in {"upload", "download"}
  /\ req = [dir |-> "", op |-> "", q |-> NoRequest]
  /\ live = {}
  /\ mon = [dir |-> "", phase |-> 0]
  /\ current_chunk_ctx = NULL
  /\ current_chunk_idx = 0
  /\ current_connection = NULL
  /\ posts = {}
  /\ MngrInit
  /\ DownloadInit
  /\ client = NoClient

NextPool ==
  \/ /\ side = "upload"
     /\ \E q \in StartReqs({T1, T2}, {PathN, PathXY}) : cgi_upload_start(q) /\ UNCHANGED client
  \/ /\ side = "upload"
     /\ \E q \in UploadChunkReqs({T1, T2}, {0}, {PayloadM}) :
          cgi_upload_chunk(q, "ok", 0) /\ UNCHANGED client
  \/ /\ side = "upload"
     /\ \E q \in TokenReqs({T1, T2}) : cgi_upload_end(q) /\ UNCHANGED client
  \/ /\ side = "upload"
     /\ \E q \in TokenReqs({T1, T2}) : cgi_upload_cancel(q) /\ UNCHANGED client
  \/ /\ side = "download"
     /\ \E q \in StartReqs({T1, T2}, {PathA, PathXY}) : cgi_download_start(q) /\ UNCHANGED client
  \/ /\ side = "download"
     /\ \E q \in DownloadChunkReqs({T1, T2}, {0}) : cgi_download_chunk(q, "ok") /\ UNCHANGED client
  \/ /\ side = "download"
     /\ \E q \in TokenReqs({T1, T2}) : cgi_download_end(q) /\ UNCHANGED client
  \/ /\ side = "download"
     /\ \E q \in TokenReqs({T1, T2}) : cgi_download_cancel(q) /\ UNCHANGED client

SpecPool == InitPool /\ [][NextPool]_vars


-----------------------------------------------------------------------------
(* Properties of the pools *)

InUse(pool) == {i \in DOMAIN pool : pool[i].in_use}
\* The in-use slots of p2 are those of p, each with the token and file it had.
SameInUse(p, p2) ==
  \A i \in DOMAIN p :
    /\ p2[i].in_use = p[i].in_use
    /\ p[i].in_use => p2[i] = p[i]
\* A start request that carries both parameters.
FullStart(r, dir) ==
  r.dir = dir /\ r.op = "start" /\ Has(r.q, "token") /\ Has(r.q, "fullpath")
\* The start served in this step got a slot of pool p that was free.
GotSlot(p, p2, token) ==
  /\ Cardinality(InUse(p2)) = Cardinality(InUse(p)) + 1
  /\ \E i \in DOMAIN p :
       ~p[i].in_use /\ p2[i].in_use /\ p2[i].token = TokenCopy(token)

\* C1: in each direction at most 4 contexts are in use; a start served while
\* all 4 slots of its pool are in use answers "no context available" and
\* changes no slot; a start served while a slot is free (one was freed by
\* end or cancel) and whose file can be opened is given a slot.
C1_PoolCapacity ==
  [][ /\ Cardinality(InUse(upload_contexts)) <= 4
      /\ Cardinality(InUse(download_contexts)) <= 4
      /\ FullStart(req', "upload") /\ InUse(upload_contexts) = UploadSlots
           => /\ json_buff' = Err("no context available")
              /\ upload_contexts' = upload_contexts
      /\ FullStart(req', "download") /\ InUse(download_contexts) = DownloadSlots
           => /\ json_buff' = Err("no context available")
              /\ download_contexts' = download_contexts
      /\ ( /\ FullStart(req', "upload")
           /\ InUse(upload_contexts) # UploadSlots
           /\ f_open_write_res(fs, url_decode(req'.q.fullpath, DECODED_PATH_SIZE).out) = "FR_OK" )
           => /\ IsStatus(json_buff', "started")
              /\ GotSlot(upload_contexts, upload_contexts', req'.q.token)
      /\ ( /\ FullStart(req', "download")
           /\ InUse(download_contexts) # DownloadSlots
           /\ f_open_read_res(fs, url_decode(req'.q.fullpath, DECODED_PATH_SIZE).out) = "FR_OK" )
           => /\ IsStatus(json_buff', "started")
              /\ GotSlot(download_contexts, download_contexts', req'.q.token)
    ]_vars

\* A start was refused with the pool full, the next request freed a context
\* and the request after that was a start that got the slot.
C1_Witness ==
  /\ mon.phase = 3
  /\ IsStatus(json_buff, "started")
  /\ (mon.dir = "upload" => InUse(upload_contexts) = UploadSlots)
  /\ (mon.dir = "download" => InUse(download_contexts) = DownloadSlots)

\* C2: no two in-use slots of one pool hold the same token.
C2_TokenUnique ==
  /\ \A i, j \in UploadSlots :
       i # j /\ upload_contexts[i].in_use /\ upload_contexts[j].in_use
         => upload_contexts[i].token # upload_contexts[j].token
  /\ \A i, j \in DownloadSlots :
       i # j /\ download_contexts[i].in_use /\ download_contexts[j].in_use
         => download_contexts[i].token # download_contexts[j].token

\* C3: chunk, end and cancel answer an error unless a start for their token
\* succeeded earlier and no end or cancel for it has succeeded since.
C3_Lifecycle ==
  [][ ( /\ req'.op \in {"chunk", "end", "cancel"}
        /\ Has(req'.q, "token")
        /\ <<req'.dir, req'.q.token>> \notin live )
        => IsError(json_buff')
    ]_vars

\* C4: a start that answers an error leaves the in-use slots of both pools
\* as they were, each with its token and its file.
C4_FailedStartKeepsSlots ==
  [][ req'.op = "start" /\ IsError(json_buff')
        => /\ SameInUse(upload_contexts, upload_contexts')
           /\ SameInUse(download_contexts, download_contexts')
    ]_vars

\* A start failed on the file open while other contexts were in use.
C4_Witness ==
  /\ req.op = "start"
  /\ json_buff = Err("cannot open file")
  /\ InUse(upload_contexts) \cup InUse(download_contexts) # {}

-----------------------------------------------------------------------------
(* A download as a client runs it: download_start, then download_chunk for  *)
(* index 0, 1, ... until a chunk shorter than chunkSize arrives, then       *)
(* download_end; other clients start and end downloads in between.         *)

\* The longest file of the download runs.
MaxFileLen == 4
DlContents == UNION {[1 .. n -> Bytes] : n \in 0 .. MaxFileLen}
\* Path "/b", a second file.
PathB == <<47, 98>>

\* What the client makes of the "data" member of a chunk response.
ClientDecode(text) == base64_decode_from(text, 1)

DlVolume(content) ==
  (PathA :> [kind |-> "file", rdo |-> FALSE, hid |-> FALSE, data |-> content])
    @@ (PathB :> [kind |-> "file", rdo |-> FALSE, hid |-> FALSE, data |-> <<255>>])

InitDl ==
  /\ upload_contexts = [i \in UploadSlots |-> ZeroCtx]
  /\ download_contexts = [i \in DownloadSlots |-> ZeroCtx]
  /\ \E content \in DlContents : fs = DlVolume(content)
  /\ json_buff = EmptyBuff
  /\ side = "download"
  /\ req = [dir |-> "", op |-> "", q |-> NoRequest]
  /\ live = {}
  /\ mon = [dir |-> "", phase |-> 0]
  /\ current_chunk_ctx = NULL
  /\ current_chunk_idx = 0
  /\ current_connection = NULL
  /\ posts = {}
  /\ MngrInit
  /\ DownloadInit
  /\ client = NoClient

\* The client starts its download; `fresh` records that its token was not
\* in use by another download at that moment.
DlClientStart(t, p) ==
  /\ client.phase = "idle"
  /\ cgi_download_start([token |-> t, fullpath |-> p])
  /\ client' = IF IsStatus(json_buff', "started")
                 THEN [phase |-> "running", token |-> t, path |-> p,
                       fileSize |-> json_buff'.fileSize, next |-> 0,
                       acc |-> <<>>, total |-> 0,
                       fresh |-> (find_download_ctx(t) = NULL)]
                 ELSE client

\* The client asks for its next chunk and appends what it gets; a failed
\* read is asked for again.
DlClientChunk(io) ==
  /\ client.phase = "running"
  /\ cgi_download_chunk([token |-> client.token, chunk |-> ChunkStr(client.next)], io)
  /\ client' = IF IsStatus(json_buff', "chunk")
                 THEN [client EXCEPT
                         !.next = @ + 1,
                         !.acc = @ \o ClientDecode(json_buff'.data),
                         !.total = @ + json_buff'.length,
                         !.phase = IF json_buff'.length < DlChunk
                                     THEN "done" ELSE "running"]
                 ELSE client

DlClientEnd ==
  /\ client.phase = "done"
  /\ cgi_download_end([token |-> client.token])
  /\ client' = [client EXCEPT !.phase = "closed"]

\* Another client's request with token t.
Disturbs(t) ==
  IF client.phase = "running" /\ client.token = t
    THEN [client EXCEPT !.fresh = FALSE] ELSE client

DlOtherStart(t, p) ==
  /\ cgi_download_start([token |-> t, fullpath |-> p])
  /\ client' = Disturbs(t)

DlOtherEnd(t) ==
  /\ cgi_download_end([token |-> t])
  /\ client' = Disturbs(t)

NextDl ==
  \/ \E p \in {PathA, PathB} : DlClientStart(T1, p)
  \/ \E io \in {"ok", "err"} : DlClientChunk(io)
  \/ DlClientEnd
  \/ \E t \in {T1} : DlOtherStart(t, PathB)
  \/ \E t \in {T1} : DlOtherEnd(t)

SpecDl == InitDl /\ [][NextDl]_vars

\* The client's download is complete.
DlDone == client.phase \in {"done", "closed"}
RoundTrip ==
  /\ client.fileSize = Len(fs[client.path].data)
  /\ client.total = client.fileSize
  /\ client.acc = fs[client.path].data

\* C5: for a file of size S, download_start reports fileSize = S, and when
\* the client has fetched chunk 0, 1, ... up to the first chunk shorter than
\* chunkSize, the chunk lengths sum to S and the decoded data, concatenated
\* in index order, is the file's content.
C5_DownloadRoundTrip ==
  /\ client.phase = "running" => client.fileSize = Len(fs[client.path].data)
  /\ DlDone => RoundTrip

\* The same for a client whose token no other download uses meanwhile.
C5_FreshRoundTrip ==
  (DlDone /\ client.fresh) => RoundTrip
C5_FreshDone ==
  /\ DlDone /\ client.fresh /\ client.path = PathA
  /\ client.fileSize = 2 * DlChunk

-----------------------------------------------------------------------------
(* An upload as a client runs it: upload_start, chunks by the form path and *)
(* by the raw-binary path, some of them sent twice in a row, upload_end.    *)

\* The number of chunk requests of a run, and the longest body of a POST.
MaxSends == 3
MaxBody == 2
\* "%2FwBN", the percent-encoded base64 text "/wBN" of the bytes 255 0 77.
PayloadEsc == <<37, 50, 70, 119, 66, 78>>
\* The URI of a POST for chunk k of token t.
PostUri(t, k) ==
  UploadChunkUri \o <<63>> \o ParamToken \o t \o <<38>> \o ParamChunk \o ChunkStr(k)
\* pbuf chains of one segment and of two, with the outcome of each write.
PbufWrites ==
  { [p |-> << <<77>> >>, ios |-> <<"ok">>],
    [p |-> << <<0>>, <<255>> >>, ios |-> <<"ok", "ok">>],
    [p |-> << <<0>>, <<255>> >>, ios |-> <<"ok", "short">>] }
RECURSIVE Flat(_)
Flat(p) == IF p = <<>> THEN <<>> ELSE Head(p) \o Flat(Tail(p))

NoSend == [key |-> <<>>]
NoPost == [conn |-> NULL]
NoResend == [is |-> FALSE]

InitUl ==
  /\ upload_contexts = [i \in UploadSlots |-> ZeroCtx]
  /\ download_contexts = [i \in DownloadSlots |-> ZeroCtx]
  /\ fs = (PathN :> NoNode)
  /\ json_buff = EmptyBuff
  /\ side = "upload"
  /\ req = [dir |-> "", op |-> "", q |-> NoRequest]
  /\ live = {}
  /\ mon = [dir |-> "", phase |-> 0]
  /\ current_chunk_ctx = NULL
  /\ current_chunk_idx = 0
  /\ current_connection = NULL
  /\ posts = {}
  /\ MngrInit
  /\ DownloadInit
  /\ client = [phase |-> "upload", sends |-> 0,
               last |-> NoSend, cur |-> NoPost, re |-> NoResend]

\* A POST in progress that another request comes across.
Interrupted ==
  IF client.cur = NoPost THEN NoPost ELSE [client.cur EXCEPT !.clean = FALSE]
\* The client notes a finished send: what it sent (key), the file and its
\* content afterwards, the bytes [lo, hi) the write covered and whether all
\* n bytes were stored.  re compares it with the send just before, when
\* that one had the same key and nothing came in between (follows).
Sent(key, path, lo, hi, n, follows, cur) ==
  LET this == [key |-> key, path |-> path, content |-> fs'[path].data,
               lo |-> lo, hi |-> hi, full |-> (hi - lo = n)]
  IN  [client EXCEPT
         !.sends = @ + 1,
         !.last = this,
         !.cur = cur,
         !.re = IF follows /\ client.last.key = key
                  THEN [is |-> TRUE, first |-> client.last, second |-> this]
                  ELSE NoResend]
Forgotten ==
  [client EXCEPT !.last = NoSend, !.cur = Interrupted, !.re = NoResend]

\* The client starts an upload when it has none.
UlStart(q) ==
  /\ InUse(upload_contexts) = {}
  /\ cgi_upload_start(q)
  /\ client' = Forgotten

UlEnd(q) ==
  /\ cgi_upload_end(q)
  /\ client' = Forgotten

\* A chunk by the form path.
UlGetChunk(q, io, fill) ==
  /\ client.sends < MaxSends
  /\ cgi_upload_chunk(q, io, fill)
  /\ client' =
       IF json_buff' \in {Status("chunk_ok"), Err("write failed")} THEN
         LET ctx == find_upload_ctx(q.token)
             hi == upload_contexts'[ctx].file.fptr
             n == Len(ClientDecode(url_decode(q.payload, Len(q.payload) + 1).out))
         IN  Sent(<<"form", q.token, q.chunk, q.payload>>,
                  upload_contexts[ctx].file.path,
                  IF IsStatus(json_buff', "chunk_ok") THEN hi - n
                  ELSE UploadOffset(atoi(q.chunk)), hi, n,
                  client.cur = NoPost, Interrupted)
       ELSE [Forgotten EXCEPT !.sends = @ + 1]

\* A chunk by the raw-binary path: begin, data, finished.
UlPostBegin(conn, uri, fill) ==
  /\ client.sends < MaxSends
  /\ conn \notin posts
  /\ httpd_post_begin(conn, uri, fill)
  /\ client' =
       IF conn \in posts' THEN
         [client EXCEPT
            !.re = NoResend,
            !.cur = [conn |-> conn, uri |-> uri, body |-> <<>>, clean |-> TRUE,
                     path |-> upload_contexts'[current_chunk_ctx'].file.path,
                     lo |-> upload_contexts'[current_chunk_ctx'].file.fptr]]
       ELSE [Forgotten EXCEPT !.sends = @ + 1]

UlPostData(conn, p, ios, fill) ==
  /\ client.cur.conn = conn
  /\ Len(client.cur.body) + Len(Flat(p)) <= MaxBody
  /\ httpd_post_receive_data(conn, p, ios, fill)
  /\ client' = [client EXCEPT !.cur.body = @ \o Flat(p)]

UlPostFinished(conn) ==
  /\ client.cur.conn = conn
  /\ httpd_post_finished(conn)
  /\ client' =
       IF client.cur.clean THEN
         Sent(<<"raw", client.cur.uri, client.cur.body>>, client.cur.path,
              client.cur.lo, upload_contexts[current_chunk_ctx].file.fptr,
              Len(client.cur.body), TRUE, NoPost)
       ELSE [client EXCEPT !.sends = @ + 1, !.last = NoSend, !.cur = NoPost,
                           !.re = NoResend]

NextUl ==
  \/ \E q \in {[token |-> T1, fullpath |-> PathN]} : UlStart(q)
  \/ \E q \in UploadChunkReqs({T1}, 0 .. MaxChunk, {PayloadM, PayloadEsc}),
        io \in {"ok", "short"}, fill \in Bytes :
       UlGetChunk(q, io, fill)
  \/ \E k \in 0 .. MaxChunk, fill \in Bytes : UlPostBegin(1, PostUri(T1, k), fill)
  \/ \E w \in PbufWrites : UlPostData(1, w.p, w.ios, 0)
  \/ UlPostFinished(1)
  \/ \E q \in {[token |-> T1]} : UlEnd(q)

SpecUl == InitUl /\ [][NextUl]_vars

\* C6: when a chunk (token, index i, payload P) is sent and stored, and the
\* same chunk is sent again at once and stored, the file has the content it
\* had after the first send, and the second write covers the byte range of
\* the first.
C6_ChunkRetryIdempotent ==
  (client.re.is /\ client.re.first.full /\ client.re.second.full) =>
     /\ fs[client.re.second.path].data = client.re.first.content
     /\ client.re.second.path = client.re.first.path
     /\ client.re.second.lo = client.re.first.lo
     /\ client.re.second.hi = client.re.first.hi
\* A chunk at an index above 0 was sent twice by the raw-binary path, in
\* two segments the second time, after other chunks, and stored both times.
C6_Witness ==
  /\ client.re.is /\ client.re.first.full /\ client.re.second.full
  /\ client.re.first.key[1] = "raw"
  /\ client.re.first.lo > 0
  /\ client.re.second.hi = client.re.second.lo + 2
  /\ client.sends = 3

-----------------------------------------------------------------------------
(* Directory listing: cgi_ls and a client that pages through a folder *)

\* sizeof(tmp) in cgi_ls and the headroom it leaves in json_buff.
LS_TMP_SIZE == 256
LS_HEADROOM == 100

\* The decimal text of a number (%u, %lu).
RECURSIVE Dec(_)
Dec(n) == IF n < 10 THEN <<48 + n>> ELSE Dec(n \div 10) \o <<48 + (n % 10)>>

\* snprintf(tmp, sizeof(tmp), "{\"n\":\"%s\",\"a\":%u,\"s\":%lu,\"t\":%u},", ...):
\* the text is cut to sizeof(tmp) - 1 characters.
EntryText(fno) ==
  LET ts == fno.fdate * 65536 + fno.ftime
      whole == <<123, 34, 110, 34, 58, 34>> \o fno.fname
                 \o <<34, 44, 34, 97, 34, 58>> \o Dec(fno.fattrib)
                 \o <<44, 34, 115, 34, 58>> \o Dec(fno.fsize)
                 \o <<44, 34, 116, 34, 58>> \o Dec(ts) \o <<125, 44>>
  IN  SubSeq(whole, 1, Min(Len(whole), LS_TMP_SIZE - 1))

\* The f_readdir loop over the entries a .. b of the directory table, from
\* the state st (the text in json_buff and the two flags) the loop has
\* reached: one entry is one pass of the loop body, a longer range is its
\* first half and then its second half.
RECURSIVE ls_loop(_, _, _, _, _)
ls_loop(table, a, b, nextItem, st) ==
  IF a > b THEN st
  ELSE IF a = b THEN
    IF st.truncated THEN st
    ELSE IF nextItem < 0 \/ a - 1 < nextItem THEN st
    ELSE IF Len(st.buf) >= MAX_JSON_PAYLOAD_SIZE - LS_HEADROOM THEN
      [st EXCEPT !.truncated = TRUE]
    ELSE [buf |-> st.buf \o EntryText(table[a]), truncated |-> FALSE, found |-> TRUE]
  ELSE LET m == (a + b) \div 2
           half == ls_loop(table, a, m, nextItem, st)
       IN  IF half.truncated THEN half ELSE ls_loop(table, m + 1, b, nextItem, half)

\* The array closed: the trailing comma goes, ",{}]" or "]" comes.
ls_close(r) ==
  LET len == Len(r.buf)
      comma == len > 1 /\ r.buf[len] = 44
  IN  IF r.truncated THEN
        (IF comma THEN SubSeq(r.buf, 1, len - 1) ELSE r.buf) \o <<44, 123, 125, 93>>
      ELSE IF r.found THEN
        (IF comma THEN SubSeq(r.buf, 1, len - 1) ELSE r.buf) \o <<93>>
      ELSE <<91, 93>>

\* The response when the text written passed the end of json_buff (the
\* strcat calls do not check): the bytes behind the buffer are overwritten
\* and what follows is not defined.
Clobbered == [clobbered |-> TRUE]

\* cgi_ls; ub is what the build makes of a write past the buffer.
cgi_ls(q, ub) ==
  LET folder == IF Has(q, "folder") THEN url_decode(q.folder, Len(q.folder) + 1)
                ELSE [ok |-> FALSE, out |-> <<>>]
      nextItem == IF Has(q, "nextItem") THEN atoi(q.nextItem) ELSE 0
      table == fs[folder.out].data
      r == ls_loop(table, 1, Len(table), nextItem,
                   [buf |-> <<91>>, truncated |-> FALSE, found |-> FALSE])
      text == ls_close(r)
  IN  /\ UNCHANGED <<upload_contexts, download_contexts, fs>>
      /\ IF ~folder.ok \/ Kind(fs, folder.out) # "dir" THEN
           Served("fs", "ls", q, [text |-> <<91, 93>>])
         ELSE IF Max(Len(r.buf), Len(text)) + 1 > MAX_JSON_PAYLOAD_SIZE THEN
           Served("fs", "ls", q, IF ub = "intact" THEN [text |-> text] ELSE Clobbered)
         ELSE
           Served("fs", "ls", q, [text |-> text])

\* The client's reading of the response: a JSON array of objects with the
\* members n, a, s and t, that may end with the empty object.
FirstIn(S) == IF S = {} THEN 0 ELSE CHOOSE i \in S : \A j \in S : i <= j
\* the closing quote of the string that starts at i
QuoteEnd(s, i) ==
  FirstIn({j \in i .. Min(Len(s), i + LS_TMP_SIZE) : s[j] = 34})
\* the end of the number that starts at i
NumEnd(s, i) == FirstIn({j \in i .. (i + 11) : ~IsDigit(At(s, j))})
ParseEntry(s, i) ==
  LET q == QuoteEnd(s, i + 6)
      aEnd == NumEnd(s, q + 6)
      sEnd == NumEnd(s, aEnd + 5)
      tEnd == NumEnd(s, sEnd + 5)
  IN  IF /\ i + 5 <= Len(s)
         /\ SubSeq(s, i, i + 5) = <<123, 34, 110, 34, 58, 34>>
         /\ q # 0
         /\ q + 5 <= Len(s)
         /\ SubSeq(s, q, q + 5) = <<34, 44, 34, 97, 34, 58>>
         /\ aEnd > q + 6
         /\ aEnd + 4 <= Len(s)
         /\ SubSeq(s, aEnd, aEnd + 4) = <<44, 34, 115, 34, 58>>
         /\ sEnd > aEnd + 5
         /\ sEnd + 4 <= Len(s)
         /\ SubSeq(s, sEnd, sEnd + 4) = <<44, 34, 116, 34, 58>>
         /\ tEnd > sEnd + 5
         /\ At(s, tEnd) = 125
      THEN [ok |-> TRUE, next |-> tEnd + 1,
            item |-> [n |-> SubSeq(s, i + 6, q - 1),
                      a |-> atoi(SubSeq(s, q + 6, aEnd - 1)),
                      s |-> atoi(SubSeq(s, aEnd + 5, sEnd - 1)),
                      t |-> atoi(SubSeq(s, sEnd + 5, tEnd - 1))]]
      ELSE [ok |-> FALSE, next |-> 0, item |-> <<>>]
\* The objects start where {"n":" stands (a FAT name holds no quote); the
\* array is well formed when each object is, a comma and the next object
\* follow it, and "]" or "{}]" follows the last.
ParseItems(s) ==
  LET starts == {i \in 2 .. (Len(s) - 5) : SubSeq(s, i, i + 5) = <<123, 34, 110, 34, 58, 34>>}
      count == Cardinality(starts)
      start == [k \in 1 .. count |->
                  CHOOSE i \in starts : Cardinality({j \in starts : j < i}) = k - 1]
      e == [k \in 1 .. count |-> ParseEntry(s, start[k])]
      tail == IF count = 0 THEN 2 ELSE e[count].next
      more == SubSeq(s, tail, Len(s)) = (IF count = 0 THEN <<>> ELSE <<44>>) \o <<123, 125, 93>>
  IN  IF /\ \A k \in 1 .. count : e[k].ok
         /\ count > 0 => start[1] = 2
         /\ \A k \in 1 .. (count - 1) :
              At(s, e[k].next) = 44 /\ start[k + 1] = e[k].next + 1
         /\ more \/ (count > 0 /\ SubSeq(s, tail, Len(s)) = <<93>>)
      THEN [ok |-> TRUE, items |-> [k \in 1 .. count |-> e[k].item], more |-> more]
      ELSE [ok |-> FALSE, items |-> <<>>, more |-> FALSE]
ParseList(resp) ==
  IF ~Has(resp, "text") THEN [ok |-> FALSE, items |-> <<>>, more |-> FALSE]
  ELSE IF resp.text = <<91, 93>> THEN [ok |-> TRUE, items |-> <<>>, more |-> FALSE]
  ELSE IF At(resp.text, 1) = 91 THEN ParseItems(resp.text)
  ELSE [ok |-> FALSE, items |-> <<>>, more |-> FALSE]

\* Directory tables: count entries with names of nameLen characters
\* (after `head` entries with 8-character names).
MaxListed == 150
LsName(k, nameLen) == Dec(k) \o [j \in 1 .. (nameLen - Len(Dec(k))) |-> 97]
LsInfo(k, nameLen) ==
  [fname |-> LsName(k, nameLen),
   fattrib |-> IF k % 3 = 0 THEN 16 ELSE 32,
   fsize |-> IF k % 3 = 0 THEN 0 ELSE k * 7919,
   fdate |-> 23073, ftime |-> 2 * k]
LsTable(head, count, nameLen) ==
  [k \in 1 .. (head + count) |-> LsInfo(k, IF k <= head THEN 8 ELSE nameLen)]
LsTables ==
  { LsTable(0, 0, 8), LsTable(0, 1, 12), LsTable(0, 5, 12),
    LsTable(0, MaxListed, 12), LsTable(0, 100, 40), LsTable(0, 60, 90),
    LsTable(0, 1, 250), LsTable(2, 3, 250), LsTable(80, 10, 200) }
\* Path "/d", the folder listed.
PathD == <<47, 100>>
LsCursors == {0, 1, 2, 4, 60, 100, MaxListed, MaxListed + 1}

InitLs ==
  /\ upload_contexts = [i \in UploadSlots |-> ZeroCtx]
  /\ download_contexts = [i \in DownloadSlots |-> ZeroCtx]
  /\ \E table \in LsTables :
       fs = (PathD :> [kind |-> "dir", rdo |-> FALSE, hid |-> FALSE, data |-> table])
  /\ json_buff = EmptyBuff
  /\ side = "fs"
  /\ req = [dir |-> "", op |-> "", q |-> NoRequest]
  /\ live = {}
  /\ mon = [dir |-> "", phase |-> 0]
  /\ current_chunk_ctx = NULL
  /\ current_chunk_idx = 0
  /\ current_connection = NULL
  /\ posts = {}
  /\ MngrInit
  /\ DownloadInit
  /\ client = [phase |-> "listing", got |-> <<>>]

\* The client asks for the next page, with nextItem the number of entries
\* it has; it is done at a response without the sentinel and fails at one
\* it cannot read.
LsClientPage(ub) ==
  /\ client.phase = "listing"
  /\ cgi_ls([folder |-> PathD, nextItem |-> Dec(Len(client.got))], ub)
  /\ client' = LET r == ParseList(json_buff')
               IN  IF ~r.ok THEN [client EXCEPT !.phase = "failed"]
                   ELSE [phase |-> IF r.more THEN "listing" ELSE "listed",
                         got |-> client.got \o r.items]

\* Any other ls request.
LsOther(q, ub) ==
  /\ cgi_ls(q, ub)
  /\ UNCHANGED client

NextLs ==
  \/ \E ub \in {"intact", "clobbered"} : LsClientPage(ub)
  \/ \E q \in {[folder |-> PathD, nextItem |-> Dec(c)] : c \in LsCursors}
              \cup {[folder |-> PathD], [nextItem |-> Dec(0)], [folder |-> PathA]},
        ub \in {"intact", "clobbered"} : LsOther(q, ub)

SpecLs == InitLs /\ [][NextLs]_vars

\* What a listing of the directory table gives for each entry.
Listed(table) ==
  [k \in 1 .. Len(table) |->
     [n |-> table[k].fname, a |-> table[k].fattrib, s |-> table[k].fsize,
      t |-> table[k].fdate * 65536 + table[k].ftime]]
LongestName(table) ==
  IF table = <<>> THEN 0
  ELSE CHOOSE n \in {Len(table[k].fname) : k \in 1 .. Len(table)} :
         \A k \in 1 .. Len(table) : Len(table[k].fname) <= n

\* C7: a client that calls ls with nextItem = 0 and then with nextItem =
\* the number of entries received so far, until a response carries no {}
\* sentinel, gets every entry of the directory exactly once and in
\* directory order.
C7_PaginatedListing ==
  /\ client.phase # "failed"
  /\ client.phase = "listed" => client.got = Listed(fs[PathD].data)

\* The same for directories whose entry texts fit tmp and the headroom
\* (names of up to 50 characters), with the sentinel there exactly when an
\* entry at or after the cursor is not in the response.
C7_ShortNames ==
  LongestName(fs[PathD].data) <= 50 =>
    /\ C7_PaginatedListing
    /\ (req.op = "ls" /\ Has(req.q, "folder") /\ req.q.folder = PathD) =>
         LET r == ParseList(json_buff)
             cursor == IF Has(req.q, "nextItem") THEN atoi(req.q.nextItem) ELSE 0
             after == Max(Len(fs[PathD].data) - cursor, 0)
         IN  r.ok /\ (r.more <=> Len(r.items) < after)
                  /\ r.items = SubSeq(Listed(fs[PathD].data), cursor + 1,
                                      cursor + Len(r.items))
C7_ShortListed ==
  /\ client.phase = "listed"
  /\ Len(client.got) = MaxListed

-----------------------------------------------------------------------------
(* Folder operations: cgi_mkdir, cgi_del, cgi_attr *)

\* The path as FatFs follows it: separators that repeat count once.
RECURSIVE FatPath(_)
FatPath(p) ==
  IF p = <<>> THEN <<>>
  ELSE IF Head(p) = Slash /\ (Len(p) = 1 \/ p[2] = Slash) THEN FatPath(Tail(p))
  ELSE <<Head(p)>> \o FatPath(Tail(p))
\* snprintf(path, sizeof(path), "%s/%s", df, ds)
JoinPath(df, ds) == df \o <<Slash>> \o ds

\* f_stat, f_unlink, f_mkdir and f_chmod: the result codes.
f_stat_res(vol, p) ==
  IF FatPath(p) = <<>> THEN "FR_INVALID_NAME"
  ELSE IF Kind(vol, ParentOf(FatPath(p))) # "dir" THEN "FR_NO_PATH"
  ELSE IF Kind(vol, FatPath(p)) = "none" THEN "FR_NO_FILE"
  ELSE "FR_OK"
\* f_unlink refuses (FR_DENIED) an entry with the read-only attribute and a
\* directory that is not empty.
f_unlink_res_forced(vol, p) == f_stat_res(vol, p)
f_unlink_res(vol, p) ==
  IF f_stat_res(vol, p) # "FR_OK" THEN f_stat_res(vol, p)
  ELSE IF vol[FatPath(p)].rdo \/ Children(vol, FatPath(p)) # {} THEN "FR_DENIED"
  ELSE "FR_OK"
f_mkdir_res(vol, p) ==
  IF FatPath(p) = <<>> THEN "FR_INVALID_NAME"
  ELSE IF Kind(vol, ParentOf(FatPath(p))) # "dir" THEN "FR_NO_PATH"
  ELSE IF Kind(vol, FatPath(p)) # "none" THEN "FR_EXIST"
  ELSE IF FatPath(p) \notin DOMAIN vol THEN "FR_DENIED"
  ELSE "FR_OK"

Failed(msg, r) == [error |-> msg, code |-> r]

cgi_mkdir(q) ==
  IF ~(Has(q, "folder") /\ Has(q, "src")) THEN
    /\ Served("fs", "mkdir", q, Err("missing parameters"))
    /\ UNCHANGED <<upload_contexts, download_contexts, fs>>
  ELSE
    LET df == url_decode(q.folder, DfSize)
        ds == url_decode(q.src, DsSize)
        path == JoinPath(df.out, ds.out)
        r == f_mkdir_res(fs, path)
    IN  /\ UNCHANGED <<upload_contexts, download_contexts>>
        /\ IF ~df.ok \/ ~ds.ok THEN
             /\ Served("fs", "mkdir", q, Err("invalid encoding"))
             /\ UNCHANGED fs
           ELSE IF r # "FR_OK" THEN
             /\ Served("fs", "mkdir", q, Failed("mkdir failed", r))
             /\ UNCHANGED fs
           ELSE
             /\ fs' = [fs EXCEPT ![FatPath(path)] = EmptyDir]
             /\ Served("fs", "mkdir", q, Status("created"))

\* f_rename: the result code, and the volume after a rename that succeeded
\* (the entry and what is below it are found under the new name).
f_rename_res(vol, from, to) ==
  IF f_stat_res(vol, from) # "FR_OK" THEN f_stat_res(vol, from)
  ELSE IF FatPath(to) = <<>> THEN "FR_INVALID_NAME"
  ELSE IF Kind(vol, FatPath(to)) # "none" THEN "FR_EXIST"
  ELSE IF Kind(vol, ParentOf(FatPath(to))) # "dir" THEN "FR_NO_PATH"
  ELSE IF FatPath(to) \notin DOMAIN vol THEN "FR_DENIED"
  ELSE "FR_OK"
Below(p, x) ==
  p = x \/ (Len(p) > Len(x) /\ SubSeq(p, 1, Len(x)) = x /\ p[Len(x) + 1] = Slash)
Renamed(vol, from, to) ==
  [p \in DOMAIN vol |->
     IF Below(p, to) THEN
       LET was == from \o SubSeq(p, Len(to) + 1, Len(p))
       IN  IF was \in DOMAIN vol THEN vol[was] ELSE NoNode
     ELSE IF Below(p, from) THEN NoNode
     ELSE vol[p]]

cgi_ren(q) ==
  IF ~(Has(q, "folder") /\ Has(q, "src") /\ Has(q, "dst")) THEN
    /\ Served("fs", "ren", q, Err("missing parameters"))
    /\ UNCHANGED <<upload_contexts, download_contexts, fs>>
  ELSE
    LET df == url_decode(q.folder, DfSize)
        ds == url_decode(q.src, DsSize)
        dd == url_decode(q.dst, DsSize)
        from == JoinPath(df.out, ds.out)
        to == JoinPath(df.out, dd.out)
        r == f_rename_res(fs, from, to)
    IN  /\ UNCHANGED <<upload_contexts, download_contexts>>
        /\ IF ~df.ok \/ ~ds.ok \/ ~dd.ok THEN
             /\ Served("fs", "ren", q, Err("invalid encoding"))
             /\ UNCHANGED fs
           ELSE IF r # "FR_OK" THEN
             /\ Served("fs", "ren", q, Failed("rename failed", r))
             /\ UNCHANGED fs
           ELSE
             /\ fs' = Renamed(fs, FatPath(from), FatPath(to))
             /\ Served("fs", "ren", q, Status("renamed"))

\* The FatFs calls of the four handlers, in the order they are made, each
\* with the paths it is given and its result code: none when a parameter
\* is missing.
FsCall(fn, paths, res) == [fn |-> fn, paths |-> paths, res |-> res]
mkdir_calls(vol, q) ==
  IF ~(Has(q, "folder") /\ Has(q, "src")) THEN <<>>
  ELSE LET path == JoinPath(url_decode(q.folder, DfSize).out, url_decode(q.src, DsSize).out)
       IN  << FsCall("f_mkdir", <<path>>, f_mkdir_res(vol, path)) >>
ren_calls(vol, q) ==
  IF ~(Has(q, "folder") /\ Has(q, "src") /\ Has(q, "dst")) THEN <<>>
  ELSE LET from == JoinPath(url_decode(q.folder, DfSize).out, url_decode(q.src, DsSize).out)
           to == JoinPath(url_decode(q.folder, DfSize).out, url_decode(q.dst, DsSize).out)
       IN  << FsCall("f_rename", <<from, to>>, f_rename_res(vol, from, to)) >>
attr_calls(vol, q) ==
  IF ~(Has(q, "folder") /\ Has(q, "src") /\ Has(q, "hidden") /\ Has(q, "readonly"))
    THEN <<>>
  ELSE LET path == JoinPath(url_decode(q.folder, DfSize).out, url_decode(q.src, DsSize).out)
       IN  << FsCall("f_chmod", <<path>>, f_stat_res(vol, path)) >>
del_calls(vol, q) ==
  IF ~(Has(q, "folder") /\ Has(q, "src")) THEN <<>>
  ELSE LET path == JoinPath(url_decode(q.folder, DfSize).out, url_decode(q.src, DsSize).out)
           stat == FsCall("f_stat", <<path>>, f_stat_res(vol, path))
           unlink == FsCall("f_unlink", <<path>>, f_unlink_res(vol, path))
       IN  IF stat.res # "FR_OK" THEN <<stat>>
           ELSE IF Kind(vol, FatPath(path)) = "dir" THEN
             <<stat, FsCall("f_opendir", <<path>>, "FR_OK"),
               FsCall("f_readdir", <<path>>, "FR_OK"),
               FsCall("f_closedir", <<path>>, "FR_OK")>>
               \o (IF Children(vol, FatPath(path)) # {} THEN <<>> ELSE <<unlink>>)
           ELSE <<stat, unlink>>

\* delete_path: the result code (a directory is removed only when
\* f_readdir finds no entry in it).
delete_path(vol, path) ==
  IF f_stat_res(vol, path) # "FR_OK" THEN f_stat_res(vol, path)
  ELSE IF Kind(vol, FatPath(path)) = "dir" THEN
    IF Children(vol, FatPath(path)) # {} THEN "FR_DENIED"
    ELSE f_unlink_res(vol, path)
  ELSE f_unlink_res(vol, path)

cgi_del(q) ==
  IF ~(Has(q, "folder") /\ Has(q, "src")) THEN
    /\ Served("fs", "del", q, Err("missing parameters"))
    /\ UNCHANGED <<upload_contexts, download_contexts, fs>>
  ELSE
    LET df == url_decode(q.folder, DfSize)
        ds == url_decode(q.src, DsSize)
        path == JoinPath(df.out, ds.out)
        r == delete_path(fs, path)
    IN  /\ UNCHANGED <<upload_contexts, download_contexts>>
        /\ IF ~df.ok \/ ~ds.ok THEN
             /\ Served("fs", "del", q, Err("invalid encoding"))
             /\ UNCHANGED fs
           ELSE IF r = "FR_DENIED" THEN
             /\ Served("fs", "del", q, Err("directory not empty"))
             /\ UNCHANGED fs
           ELSE IF r # "FR_OK" THEN
             /\ Served("fs", "del", q, Failed("delete failed", r))
             /\ UNCHANGED fs
           ELSE
             /\ fs' = [fs EXCEPT ![FatPath(path)] = NoNode]
             /\ Served("fs", "del", q, Status("deleted"))

cgi_attr(q) ==
  IF ~(Has(q, "folder") /\ Has(q, "src") /\ Has(q, "hidden") /\ Has(q, "readonly")) THEN
    /\ Served("fs", "attr", q, Err("missing parameters"))
    /\ UNCHANGED <<upload_contexts, download_contexts, fs>>
  ELSE
    LET df == url_decode(q.folder, DfSize)
        ds == url_decode(q.src, DsSize)
        hide == atoi(q.hidden)
        ro == atoi(q.readonly)
        path == JoinPath(df.out, ds.out)
        r == f_stat_res(fs, path)
    IN  /\ UNCHANGED <<upload_contexts, download_contexts>>
        /\ IF ~df.ok \/ ~ds.ok THEN
             /\ Served("fs", "attr", q, Err("invalid encoding"))
             /\ UNCHANGED fs
           ELSE IF r # "FR_OK" THEN
             /\ Served("fs", "attr", q, Failed("chmod failed", r))
             /\ UNCHANGED fs
           ELSE
             /\ fs' = [fs EXCEPT ![FatPath(path)].rdo = (ro # 0),
                                 ![FatPath(path)].hid = (hide # 0)]
             /\ Served("fs", "attr", q, Status("attributes updated"))

\* A volume with the file /a and the folder /d that holds the file /d/f
\* and the empty folder /d/e; requests name these four.
PathDE == <<47, 100, 47, 101>>
PathDF == <<47, 100, 47, 102>>
DelVolume ==
  (PathA :> EmptyFile) @@ (PathD :> EmptyDir) @@ (PathDE :> EmptyDir)
    @@ (PathDF :> [EmptyFile EXCEPT !.data = <<77>>])
EntryReqs ==
  { [folder |-> <<>>, src |-> <<97>>], [folder |-> <<47>>, src |-> <<100>>],
    [folder |-> PathD, src |-> <<101>>], [folder |-> PathD, src |-> <<102>>] }

InitDel ==
  /\ upload_contexts = [i \in UploadSlots |-> ZeroCtx]
  /\ download_contexts = [i \in DownloadSlots |-> ZeroCtx]
  /\ fs = DelVolume
  /\ json_buff = EmptyBuff
  /\ side = "fs"
  /\ req = [dir |-> "", op |-> "", q |-> NoRequest]
  /\ live = {}
  /\ mon = [dir |-> "", phase |-> 0]
  /\ current_chunk_ctx = NULL
  /\ current_chunk_idx = 0
  /\ current_connection = NULL
  /\ posts = {}
  /\ MngrInit
  /\ DownloadInit
  /\ client = NoClient

NextDel ==
  \/ \E q \in EntryReqs \cup {[folder |-> PathD]} : cgi_del(q) /\ UNCHANGED client
  \/ \E q \in EntryReqs \cup {[src |-> <<97>>]} : cgi_mkdir(q) /\ UNCHANGED client
  \/ \E q \in EntryReqs, h \in {<<48>>, <<49>>}, ro \in {<<48>>, <<49>>} :
       cgi_attr([folder |-> q.folder, src |-> q.src, hidden |-> h, readonly |-> ro])
         /\ UNCHANGED client

SpecDel == InitDel /\ [][NextDel]_vars

\* The entry a del request names, and the request being a del of an entry.
DelTarget(r) == FatPath(JoinPath(r.q.folder, r.q.src))
IsDel(r) == r.op = "del" /\ Has(r.q, "folder") /\ Has(r.q, "src")
Removed(p) ==
  /\ json_buff' = Status("deleted")
  /\ fs' = [fs EXCEPT ![p] = NoNode]
Refused == IsError(json_buff') /\ fs' = fs

-----------------------------------------------------------------------------
(* The mailbox under commands of the host computer: the interrupt arrives  *)
(* at any point of mngr_loop, which mngr_init calls again and again.       *)

\* Bus addresses without and with the ROM3 signal.
BusAddrs == {32768, 98304}
\* rand() values.
Seeds == {0, 1}
\* The frames the parser can complete for command number n: the booster
\* command or an unknown one, the token alone or a payload over the size of
\* the buffer; n is the random token.
Frames(n) ==
  {[command_id |-> c, payload_size |-> s, bytes_read |-> s, final_checksum |-> 0,
    payload |-> [i \in 1..PayloadWords |-> IF i = 1 THEN n ELSE 0]] :
     c \in {APP_BOOSTER_START, 1}, s \in {1, PayloadWords + 1}}
Parsed(n) ==
  {[kind |-> "more"]}
    \cup {[kind |-> k, protocol |-> f] : k \in {"command", "checksum"}, f \in Frames(n)}

InitMbox ==
  /\ upload_contexts = [i \in UploadSlots |-> ZeroCtx]
  /\ download_contexts = [i \in DownloadSlots |-> ZeroCtx]
  /\ fs = PoolVolume
  /\ json_buff = EmptyBuff
  /\ side = "host"
  /\ req = [dir |-> "", op |-> "", q |-> NoRequest]
  /\ live = {}
  /\ mon = [dir |-> "", phase |-> 0]
  /\ current_chunk_ctx = NULL
  /\ current_chunk_idx = 0
  /\ current_connection = NULL
  /\ posts = {}
  /\ MngrInit
  /\ DownloadInit
  /\ client = NoClient

NextMbox ==
  \/ \E seed \in Seeds : mngr_preinit(seed) /\ UNCHANGED <<httpVars, dlVars>>
  \/ /\ host.sent < MaxCommands
     /\ \E addr \in BusAddrs, parsed \in Parsed(host.sent + 1) :
          mngr_dma_irq_handler_lookup(addr, parsed)
     /\ UNCHANGED <<httpVars, dlVars>>
  \/ host.calls < MaxCalls /\ mngr_loop_valid /\ UNCHANGED <<httpVars, dlVars>>
  \/ mngr_loop_token /\ UNCHANGED <<httpVars, dlVars>>
  \/ mngr_loop_switch /\ UNCHANGED <<httpVars, dlVars>>
  \/ \E seed \in Seeds : mngr_loop_reply(seed) /\ UNCHANGED <<httpVars, dlVars>>
  \/ mngr_loop_clear /\ UNCHANGED <<httpVars, dlVars>>

SpecMbox == InitMbox /\ [][NextMbox]_vars

-----------------------------------------------------------------------------
(* Properties of the mailbox *)

\* The places of the dispatches of command n in the record of dispatches.
Dispatches(n) == {i \in 1..Len(host.disp) : host.disp[i].cmd = n}
\* Call k of mngr_loop has returned.
Completed(k) == host.calls > k \/ (host.calls = k /\ mngr.pc = "idle")
\* Command n was delivered while mngr_loop was not executing.
IdleAt(n) == host.at[n].pc = "idle"
\* A later command was delivered before the switch of the call that follows
\* the delivery of command n.
LaterBeforeSwitch(n) ==
  \E m \in (n + 1)..host.sent :
    \/ host.at[m].call = host.at[n].call /\ host.at[m].pc = "idle"
    \/ host.at[m].call = host.at[n].call + 1 /\ host.at[m].pc \in {"token", "switch"}
\* Command n was dispatched once, by the call that followed its delivery.
OnceByNextCall(n) ==
  /\ Cardinality(Dispatches(n)) = 1
  /\ \A i \in Dispatches(n) : host.disp[i].call = host.at[n].call + 1

\* A command delivered while mngr_loop is not executing and not overwritten
\* before the next call's switch is dispatched exactly once, by that call.
C9_IdleDelivery ==
  \A n \in 1..host.sent :
    (IdleAt(n) /\ Completed(host.at[n].call + 1) /\ ~LaterBeforeSwitch(n))
      => OnceByNextCall(n)

\* A command delivered after the switch of a call, or in a call that found
\* the flag clear, and before the flag is cleared is never dispatched.
C9_LateDelivery ==
  \A n \in 1..host.sent :
    host.at[n].pc \in {"reply", "clear"} => Dispatches(n) = {}

\* C9: the mailbox loses a command only in the stated window: a command
\* delivered while mngr_loop is not executing and not overwritten by a later
\* delivery is dispatched exactly once by the next mngr_loop call, and a
\* command delivered between mngr_loop's read of the valid flag and its
\* clearing of the flag is never dispatched.
C9_LostOnlyInWindow ==
  /\ C9_IdleDelivery
  /\ \A n \in 1..host.sent : ~IdleAt(n) => Dispatches(n) = {}

\* Commands n-1 and n were both delivered in the same pause between two
\* calls of mngr_loop, n the last of that pause.
TwoInPause(n) ==
  /\ n >= 2 /\ IdleAt(n - 1) /\ IdleAt(n)
  /\ host.at[n - 1].call = host.at[n].call
  /\ \A m \in (n + 1)..host.sent :
       ~(host.at[m].pc = "idle" /\ host.at[m].call = host.at[n].call)
\* The commands call k dispatched.
DispatchedBy(k) == {host.disp[i].cmd : i \in {j \in 1..Len(host.disp) : host.disp[j].call = k}}
\* The next call dispatched command n alone and once, command n-1 never.
SecondOnly(n) ==
  /\ DispatchedBy(host.at[n].call + 1) = {n}
  /\ OnceByNextCall(n)
  /\ Dispatches(n - 1) = {}

\* C10: the mailbox holds one command, not a queue: when two checksum-valid
\* commands are delivered with no mngr_loop call in between, the next
\* mngr_loop dispatches only the second one, exactly once, and the first is
\* never dispatched.
C10_SingleSlot ==
  \A n \in 1..host.sent :
    (TwoInPause(n) /\ Completed(host.at[n].call + 1)) => SecondOnly(n)

\* The same when no further command arrives before the switch of that call.
C10_TwoCommands ==
  \A n \in 1..host.sent :
    (TwoInPause(n) /\ Completed(host.at[n].call + 1) /\ ~LaterBeforeSwitch(n))
      => SecondOnly(n)
\* Two commands in one pause, the second dispatched by the call after it.
C10_TwoCommandsDone ==
  \E n \in 1..host.sent :
    TwoInPause(n) /\ Completed(host.at[n].call + 1) /\ OnceByNextCall(n)

-----------------------------------------------------------------------------
(* url_decode on its own: every short string over a few characters, into   *)
(* buffers of every small size.                                            *)

\* The statics of mngr_httpd.c and mngr.c at start, with nothing on the
\* volume, for the runs that call one function.
StaticInit ==
  /\ upload_contexts = [i \in UploadSlots |-> ZeroCtx]
  /\ download_contexts = [i \in DownloadSlots |-> ZeroCtx]
  /\ fs = (PathN :> NoNode)
  /\ json_buff = EmptyBuff
  /\ req = [dir |-> "", op |-> "", q |-> NoRequest]
  /\ live = {}
  /\ mon = [dir |-> "", phase |-> 0]
  /\ current_chunk_ctx = NULL
  /\ current_chunk_idx = 0
  /\ current_connection = NULL
  /\ posts = {}
  /\ MngrInit
  /\ DownloadInit

\* '%', '+', the digits '0' and '4', the letters 'A', 'f', 'G' and 'x'.
DecChars == {37, 43, 48, 52, 65, 102, 71, 120}
RECURSIVE StringsOver(_, _)
StringsOver(chars, n) ==
  IF n = 0 THEN {<<>>}
  ELSE LET shorter == StringsOver(chars, n - 1)
       IN  shorter \cup {Append(s, c) : s \in {t \in shorter : Len(t) = n - 1}, c \in chars}
\* What an output buffer holds before the call: not zeros.
Junk == 170
JunkBuf(n) == [k \in 1..n |-> Junk]

InitDec ==
  /\ StaticInit
  /\ side = "url_decode"
  /\ \E in \in {Ptr(s) : s \in StringsOver(DecChars, MaxIn)} \cup {NullPtr},
        out \in {Ptr(JunkBuf(n)) : n \in 0..MaxOut} \cup {NullPtr} :
       client = [phase |-> "call", in |-> in, out |-> out,
                 outLen |-> IF IsNullPtr(out) THEN MaxOut ELSE Len(out.at)]

\* The call and what it leaves.
UrlDecodeCall ==
  /\ client.phase = "call"
  /\ LET r == url_decode_buf(client.in, client.out, client.outLen)
     IN  client' = [client EXCEPT !.phase = "done"] @@ [ret |-> r.ok, res |-> r.out]
  /\ UNCHANGED <<upload_contexts, download_contexts, fs, json_buff, postVars,
                 side, req, live, mon, mngrVars, dlVars>>

NextDec == UrlDecodeCall
SpecDec == InitDec /\ [][NextDec]_vars

\* The value of a hexadecimal digit, by its place in "0123456789ABCDEF" or
\* in "0123456789abcdef".
UpperDigits == <<48, 49, 50, 51, 52, 53, 54, 55, 56, 57, 65, 66, 67, 68, 69, 70>>
LowerDigits == <<48, 49, 50, 51, 52, 53, 54, 55, 56, 57, 97, 98, 99, 100, 101, 102>>
IsHex(c) == \E v \in 1..16 : UpperDigits[v] = c \/ LowerDigits[v] = c
DigitOf(c) == (CHOOSE v \in 1..16 : UpperDigits[v] = c \/ LowerDigits[v] = c) - 1
\* The percent-decoding of a string: %XX is the byte XX, + is a space, every
\* other byte stands for itself.
RECURSIVE PercentDecoding(_)
PercentDecoding(s) ==
  IF s = <<>> THEN <<>>
  ELSE IF Len(s) >= 3 /\ s[1] = 37 /\ IsHex(s[2]) /\ IsHex(s[3])
    THEN <<16 * DigitOf(s[2]) + DigitOf(s[3])>> \o PercentDecoding(SubSeq(s, 4, Len(s)))
  ELSE IF s[1] = 43 THEN <<32>> \o PercentDecoding(Tail(s))
  ELSE <<s[1]>> \o PercentDecoding(Tail(s))

\* A call with a string, a buffer and a capacity of at least 1 has returned.
Decoded ==
  /\ client.phase = "done"
  /\ ~IsNullPtr(client.in) /\ ~IsNullPtr(client.out) /\ client.outLen >= 1

TooSmall ==
  /\ ~IsNullPtr(client.in)
  /\ client.outLen < Len(PercentDecoding(client.in.at)) + 1

\* C19: url_decode returns false if the input is NULL, the output is NULL,
\* or the output buffer is too small to hold the decoded input.
C19_UrlDecodeFalse ==
  (client.phase = "done"
     /\ (IsNullPtr(client.in) \/ IsNullPtr(client.out) \/ TooSmall))
    => client.ret = FALSE

\* It returns false for a null input, a null output and a capacity of 0.
C19_InvalidArguments ==
  (client.phase = "done"
     /\ (IsNullPtr(client.in) \/ IsNullPtr(client.out) \/ client.outLen = 0))
    => (client.ret = FALSE /\ client.res = client.out)

-----------------------------------------------------------------------------
(* parseUrl on its own: every short URL over ':', '/', 'a' and '.'.        *)

UrlChars == {58, 47, 97, 46}

InitUrl ==
  /\ StaticInit
  /\ side = "parseUrl"
  /\ \E u \in {Ptr(s) : s \in StringsOver(UrlChars, MaxUrl)} \cup {NullPtr} :
       client = [phase |-> "call", url |-> u]

\* The call download_start makes, on the URL given.
ParseUrlCall ==
  /\ client.phase = "call"
  /\ LET r == parseUrl(client.url, components, fileUrl)
     IN  /\ components' = r.components
         /\ fileUrl' = r.file
         /\ client' = [client EXCEPT !.phase = "done"] @@ [ret |-> r.ret]
  /\ UNCHANGED <<upload_contexts, download_contexts, fs, json_buff, postVars,
                 side, req, live, mon, mngrVars,
                 downloadStatus, url, dst_folder, file, request>>

NextUrl == ParseUrlCall
SpecUrl == InitUrl /\ [][NextUrl]_vars

\* The places where "://" stands in s, and where a '/' stands.
SepPlaces(s) == {i \in 1..Len(s) : i + 2 <= Len(s) /\ s[i] = 58 /\ s[i + 1] = 47 /\ s[i + 2] = 47}
SlashPlaces(s) == {i \in 1..Len(s) : s[i] = 47}
Least(S) == CHOOSE i \in S : \A j \in S : i <= j
Greatest(S) == CHOOSE i \in S : \A j \in S : i >= j
\* The parts of a URL as the text defines them: the protocol before "://",
\* the host up to the first '/' after it, the uri from that '/' on, and the
\* name after the last '/' of the uri or "default.bin".
PartsOf(s) ==
  LET sep == Least(SepPlaces(s))
      rest == SubSeq(s, sep + 3, Len(s))
      uri == IF SlashPlaces(rest) = {} THEN <<>>
             ELSE SubSeq(rest, Least(SlashPlaces(rest)), Len(rest))
      hostname == SubSeq(rest, 1, Len(rest) - Len(uri))
      name == IF uri = <<>> THEN <<>>
              ELSE SubSeq(uri, Greatest(SlashPlaces(uri)) + 1, Len(uri))
  IN  [protocol |-> SubSeq(s, 1, sep - 1), host |-> hostname, uri |-> uri,
       filename |-> IF name = <<>> THEN DefaultBin ELSE name]
\* parseUrl returned 0 and left these parts.
Split(parts) ==
  /\ client.ret = 0
  /\ components = [protocol |-> parts.protocol, host |-> parts.host, uri |-> parts.uri]
  /\ fileUrl.filename = parts.filename
\* The call was made on a string.
Parsed12 == client.phase = "done" /\ ~IsNullPtr(client.url)
\* Every part is shorter than the field it goes to.
Fits(parts) ==
  /\ Len(parts.protocol) < ProtocolSize
  /\ Len(parts.host) < HostSize
  /\ Len(parts.uri) < UriSize
  /\ Len(parts.filename) < FilenameSize

\* C12: parseUrl splits an absolute URL into protocol, host and uri, and the
\* file name is the text after the last '/' of the uri or "default.bin" when
\* that text is empty or there is no uri; a URL without "://" is rejected.
C12_ParseUrl ==
  Parsed12 =>
    IF SepPlaces(client.url.at) = {} THEN client.ret = -1
    ELSE Split(PartsOf(client.url.at))

\* C12 as amended: the same for a URL whose protocol, host, uri and file
\* name are shorter than their fields.
C12_ParseUrlFits ==
  Parsed12 =>
    IF SepPlaces(client.url.at) = {} THEN client.ret = -1
    ELSE Fits(PartsOf(client.url.at)) => Split(PartsOf(client.url.at))

\* "a://./a" gives the protocol a, the host ., the uri /a and the name a.
C12_Witness ==
  /\ Parsed12
  /\ client.url.at = <<97, 58, 47, 47, 46, 47, 97>>
  /\ client.ret = 0
  /\ components = [protocol |-> <<97>>, host |-> <<46>>, uri |-> <<47, 97>>]
  /\ fileUrl.filename = <<97>>

-----------------------------------------------------------------------------
(* The sizes of a download_chunk response, for every number of bytes left  *)
(* in the file from the chunk's offset, with the chunk size of the program. *)

\* f_read(&ctx->file, rawbuf, DOWNLOAD_CHUNK_SIZE, &readBytes) with upload's
\* chunk size in the place of download's.
ReadBytes_upload_size(left) == Min(left, UPLOAD_CHUNK_SIZE)
\* f_read(&ctx->file, rawbuf, DOWNLOAD_CHUNK_SIZE, &readBytes): readBytes.
ReadBytes(left) == Min(left, DOWNLOAD_CHUNK_SIZE)

\* mbedtls_base64_encode on slen bytes into a buffer of dlen: the return
\* value and olen, the length of the text.
base64_encode_len(dlen, slen) ==
  LET n == 4 * ((slen \div 3) + (IF slen % 3 # 0 THEN 1 ELSE 0))
  IN  IF slen = 0 THEN [ret |-> "OK", olen |-> 0]
      ELSE IF dlen < n + 1 THEN [ret |-> "BUFFER_TOO_SMALL", olen |-> n + 1]
      ELSE [ret |-> "OK", olen |-> n]

\* The fixed text of "{\"status\":\"chunk\",\"length\":%u,\"data\":\"%.*s\"}".
ChunkHead == <<123, 34, 115, 116, 97, 116, 117, 115, 34, 58, 34, 99, 104, 117, 110, 107, 34,
               44, 34, 108, 101, 110, 103, 116, 104, 34, 58>>
ChunkMid == <<44, 34, 100, 97, 116, 97, 34, 58, 34>>
ChunkTail == <<34, 125>>
\* The length of the text that format gives for readBytes and olen.
ChunkTextLen(readBytes, olen) ==
  Len(ChunkHead) + Len(Dec(readBytes)) + Len(ChunkMid) + olen + Len(ChunkTail)

InitFit ==
  /\ StaticInit
  /\ side = "sizes"
  /\ \E left \in 0..MaxLeft : client = [phase |-> "call", left |-> left]

\* cgi_download_chunk from f_read on, by sizes: the bytes read, the encode
\* into b64buf[MAX_JSON_PAYLOAD_SIZE], the text snprintf is given and the
\* part of it json_buff takes.
DownloadChunkSizes ==
  /\ client.phase = "call"
  /\ LET readBytes == ReadBytes(client.left)
         enc == base64_encode_len(MAX_JSON_PAYLOAD_SIZE, readBytes)
         whole == ChunkTextLen(readBytes, enc.olen)
     IN  client' = [phase |-> "done", left |-> client.left, readBytes |-> readBytes,
                    ret |-> enc.ret, olen |-> enc.olen, whole |-> whole,
                    stored |-> Min(whole, MAX_JSON_PAYLOAD_SIZE - 1)]
  /\ UNCHANGED <<upload_contexts, download_contexts, fs, json_buff, postVars,
                 side, req, live, mon, mngrVars, dlVars>>

NextFit == DownloadChunkSizes
SpecFit == InitFit /\ [][NextFit]_vars

\* C13: for every read length from 0 to the download chunk size the base64
\* text fits the encode buffer and the whole response (fixed text, length
\* digits, base64 text, terminator) fits the 4096-byte shared buffer: no
\* download_chunk response is cut.
C13_ChunkFits ==
  client.phase = "done" =>
    /\ client.readBytes <= DOWNLOAD_CHUNK_SIZE
    /\ client.ret = "OK"
    /\ client.olen + 1 <= MAX_JSON_PAYLOAD_SIZE
    /\ client.whole + 1 <= MAX_JSON_PAYLOAD_SIZE
    /\ client.stored = client.whole

\* A full chunk: 2048 bytes, 2732 characters of base64, 2774 of response.
C13_Witness ==
  /\ client.phase = "done"
  /\ client.left > DOWNLOAD_CHUNK_SIZE
  /\ client.readBytes = DOWNLOAD_CHUNK_SIZE
  /\ client.olen = 2732
  /\ client.whole = 2774

\* The length by sizes is the length of the text the encoder writes.
C13_LengthOfText ==
  (client.phase = "done" /\ client.readBytes <= 7) =>
    Len(mbedtls_base64_encode(MAX_JSON_PAYLOAD_SIZE, JunkBuf(client.readBytes)).out)
      = client.olen

-----------------------------------------------------------------------------
(* Filesystem errors in the responses *)

\* The response is an error object that carries result code r.
FsCode(resp, r) == IsError(resp) /\ "code" \in DOMAIN resp /\ resp.code = r
\* The path a start request names, decoded.
StartPath(r) == url_decode(r.q.fullpath, DECODED_PATH_SIZE).out

\* C14: whenever a filesystem call made by a CGI handler fails, the JSON
\* response is an error object whose message contains the numeric result
\* code of that call; here the f_open of upload_start and download_start.
C14_FsErrorCode ==
  [][ /\ ( /\ FullStart(req', "upload")
           /\ InUse(upload_contexts) # UploadSlots
           /\ f_open_write_res(fs, StartPath(req')) # "FR_OK" )
           => FsCode(json_buff', f_open_write_res(fs, StartPath(req')))
      /\ ( /\ FullStart(req', "download")
           /\ InUse(download_contexts) # DownloadSlots
           /\ f_open_read_res(fs, StartPath(req')) # "FR_OK" )
           => FsCode(json_buff', f_open_read_res(fs, StartPath(req')))
    ]_vars

\* A failed f_mkdir is answered with its result code.
C14_MkdirCode ==
  [][ ( /\ req'.op = "mkdir" /\ Has(req'.q, "folder") /\ Has(req'.q, "src")
        /\ f_mkdir_res(fs, JoinPath(url_decode(req'.q.folder, DfSize).out,
                                    url_decode(req'.q.src, DsSize).out)) # "FR_OK" )
        => FsCode(json_buff',
                  f_mkdir_res(fs, JoinPath(url_decode(req'.q.folder, DfSize).out,
                                           url_decode(req'.q.src, DsSize).out)))
    ]_vars


\* ---------------------------------------------------------------------
\* Streaming of json_buff by the JSONPLD tag
\* ---------------------------------------------------------------------

\* The size of the insert buffer the server hands to ssi_handler.
InsertLen == 192
\* The bytes ssi_handler sends in one part of the JSONPLD tag.
SsiChunkSize == 128
\* next_tag_part as the server sets it before the call: no further part.
HTTPD_LAST_TAG_PART == 65535

\* A handler that asks for a further part whenever it sent a full one.
ssi_jsonpld_full(iInsertLen, current_tag_part) ==
  LET offset == current_tag_part * SsiChunkSize
      json_len == Len(json_buff.text)
      remain == json_len - offset
      chunk_len == Min(Min(remain, SsiChunkSize), iInsertLen - 1)
  IN  IF offset >= json_len THEN
        [printed |-> 0, pcInsert |-> <<>>, next_tag_part |-> HTTPD_LAST_TAG_PART]
      ELSE
        [printed |-> chunk_len,
         pcInsert |-> SubSeq(json_buff.text, offset + 1, offset + chunk_len),
         next_tag_part |-> IF offset + chunk_len <= json_len /\ chunk_len = SsiChunkSize
                           THEN current_tag_part + 1 ELSE HTTPD_LAST_TAG_PART]
\* ssi_handler, case 7 (JSONPLD): the part of json_buff that starts at
\* current_tag_part * 128, and the next part if more text follows.
ssi_jsonpld(iInsertLen, current_tag_part) ==
  LET offset == current_tag_part * SsiChunkSize
      json_len == Len(json_buff.text)
      remain == json_len - offset
      chunk_len == Min(Min(remain, SsiChunkSize), iInsertLen - 1)
  IN  IF offset >= json_len THEN
        [printed |-> 0, pcInsert |-> <<>>, next_tag_part |-> HTTPD_LAST_TAG_PART]
      ELSE
        [printed |-> chunk_len,
         pcInsert |-> SubSeq(json_buff.text, offset + 1, offset + chunk_len),
         next_tag_part |-> IF offset + chunk_len < json_len
                           THEN current_tag_part + 1 ELSE HTTPD_LAST_TAG_PART]

\* The connections of the session and what each has asked for and received:
\* want is the text its handler left in json_buff, got the parts streamed
\* to it so far, alone whether no other handler has run since its own.
Conns == {1, 2}
IdleConn == [state |-> "idle", part |-> 0, want |-> <<>>, got |-> <<>>, alone |-> TRUE]
PathE == <<47, 101>>
StreamVolume ==
  (PathD :> [kind |-> "dir", rdo |-> FALSE, hid |-> FALSE, data |-> LsTable(0, 3, 100)])
    @@ (PathE :> [kind |-> "dir", rdo |-> FALSE, hid |-> FALSE, data |-> LsTable(0, 2, 90)])
StreamReqs ==
  {[folder |-> f, nextItem |-> Dec(k)] : f \in {PathD, PathE}, k \in {0, 1}}

InitStream ==
  /\ upload_contexts = [i \in UploadSlots |-> ZeroCtx]
  /\ download_contexts = [i \in DownloadSlots |-> ZeroCtx]
  /\ fs = StreamVolume
  /\ json_buff = EmptyBuff
  /\ side = "fs"
  /\ req = [dir |-> "", op |-> "", q |-> NoRequest]
  /\ live = {}
  /\ mon = [dir |-> "", phase |-> 0]
  /\ current_chunk_ctx = NULL
  /\ current_chunk_idx = 0
  /\ current_connection = NULL
  /\ posts = {}
  /\ MngrInit
  /\ DownloadInit
  /\ client = [phase |-> "streams", conns |-> [c \in Conns |-> IdleConn]]

\* A request arrives on connection c: its handler fills json_buff and the
\* server starts on the page that carries the JSONPLD tag.
StreamRequest(c, q) ==
  /\ client.conns[c].state # "sending"
  /\ cgi_ls(q, "intact")
  /\ client' = [client EXCEPT !.conns =
       [d \in Conns |->
          IF d = c THEN [state |-> "sending", part |-> 0, want |-> json_buff'.text,
                         got |-> <<>>, alone |-> TRUE]
          ELSE [client.conns[d] EXCEPT !.alone = FALSE]]]

\* The server asks ssi_handler for the next part of the tag of connection c.
StreamPart(c) ==
  /\ client.conns[c].state = "sending"
  /\ LET r == ssi_jsonpld(InsertLen, client.conns[c].part)
     IN  client' = [client EXCEPT !.conns[c] =
           [@ EXCEPT !.got = @ \o r.pcInsert,
                     !.part = IF r.next_tag_part = HTTPD_LAST_TAG_PART THEN @
                              ELSE r.next_tag_part,
                     !.state = IF r.next_tag_part = HTTPD_LAST_TAG_PART THEN "done"
                               ELSE "sending"]]
  /\ UNCHANGED <<upload_contexts, download_contexts, fs, json_buff, postVars,
                 side, req, live, mon, mngrVars, dlVars>>

NextStream ==
  \/ \E c \in Conns, q \in StreamReqs : StreamRequest(c, q)
  \/ \E c \in Conns : StreamPart(c)

SpecStream == InitStream /\ [][NextStream]_vars

Streams == "conns" \in DOMAIN client

\* C15: every client receives exactly the JSON that the handler of its own
\* request produced, whatever requests the other connections make while the
\* response is streamed.
C15_OwnResponse ==
  Streams =>
    \A c \in Conns : client.conns[c].state = "done"
                       => client.conns[c].got = client.conns[c].want

\* A response that no other handler runs into arrives whole.
C15_AloneWhole ==
  Streams =>
    \A c \in Conns : client.conns[c].state = "done" /\ client.conns[c].alone
                       => client.conns[c].got = client.conns[c].want

\* A response of several parts has arrived whole.
C15_SeveralParts ==
  /\ Streams
  /\ \E c \in Conns : /\ client.conns[c].state = "done"
                      /\ client.conns[c].alone
                      /\ client.conns[c].part >= 2


\* ---------------------------------------------------------------------
\* Downloads from the internet: cgi_download, the HTTP client callbacks and
\* the download states of the main loop
\* ---------------------------------------------------------------------

MNGR_HTTPD_RESPONSE_BAD_REQUEST == 400
\* The pages cgi_download sends the browser to.
ErrorPage(msg) ==
  [page |-> "/error.shtml", error |-> MNGR_HTTPD_RESPONSE_BAD_REQUEST, error_msg |-> msg]
ProgressPage == [page |-> "/downloading.shtml"]
NoPage == [page |-> ""]

\* A parameter of the request as the server hands it over: pcParam[i] and
\* pcValue[i], which is NULL for a name that came without a value.
Param(n, v) == [n |-> n, v |-> v]
\* char buf[size] = {0}
ZeroBuf(size) == [k \in 1 .. size |-> NUL]

\* The loop of cgi_download over the parameters from i on; st holds
\* decoded_folder, decoded_url, has_folder, has_url and the page of an
\* early return.
RECURSIVE cgi_download_params(_, _, _)
cgi_download_params(params, i, st) ==
  IF i > Len(params) THEN st
  ELSE IF params[i].n = "folder" THEN
    LET r == url_decode_buf(params[i].v, Ptr(st.decoded_folder), FolderSize)
    IN  IF ~r.ok THEN [st EXCEPT !.ret = ErrorPage("Invalid folder")]
        ELSE cgi_download_params(params, i + 1,
               [st EXCEPT !.decoded_folder = r.out.at, !.has_folder = TRUE])
  ELSE IF params[i].n = "url" THEN
    LET r == url_decode_buf(params[i].v, Ptr(st.decoded_url), BufflineSize)
    IN  IF ~r.ok THEN [st EXCEPT !.ret = ErrorPage("Invalid url")]
        ELSE cgi_download_params(params, i + 1,
               [st EXCEPT !.decoded_url = r.out.at, !.has_url = TRUE])
  ELSE cgi_download_params(params, i + 1, st)

\* download_setStatus without the assignment.
download_setStatus_ignored(status) == downloadStatus' = downloadStatus
download_setStatus(status) == downloadStatus' = status
download_setUrl(u) == url' = StrNCpy(u, BufflineSize)
download_setDstFolder(d) == dst_folder' = StrNCpy(d, BufflineSize)

\* cgi_download: the page it returns and what it stores.
cgi_download(params) ==
  LET st == cgi_download_params(params, 1,
              [decoded_folder |-> ZeroBuf(FolderSize), decoded_url |-> ZeroBuf(BufflineSize),
               has_folder |-> FALSE, has_url |-> FALSE, ret |-> NoPage])
  IN  IF st.ret # NoPage THEN
        [ret |-> st.ret, stores |-> FALSE, folder |-> <<>>, url |-> <<>>]
      ELSE IF ~st.has_folder \/ ~st.has_url THEN
        [ret |-> ErrorPage("Bad request"), stores |-> FALSE, folder |-> <<>>, url |-> <<>>]
      ELSE
        [ret |-> ProgressPage, stores |-> TRUE,
         folder |-> CStr(st.decoded_folder), url |-> CStr(st.decoded_url)]


\* f_chmod(path, 0, AM_RDO): the read-only attribute of an entry is cleared.
f_chmod_clear_rdo(vol, p) ==
  IF f_stat_res(vol, p) = "FR_OK" THEN [vol EXCEPT ![FatPath(p)].rdo = FALSE] ELSE vol
\* A file that one of the transfer contexts holds open is locked.
Locked(p) ==
  \/ \E i \in UploadSlots :
       upload_contexts[i].file.open /\ upload_contexts[i].file.path = FatPath(p)
  \/ \E i \in DownloadSlots :
       download_contexts[i].file.open /\ download_contexts[i].file.path = FatPath(p)

\* What the callbacks of the HTTP client and download_poll read and write:
\* downloadStatus, the volume, file and request.
Download == [downloadStatus |-> downloadStatus, fs |-> fs, file |-> file,
             request |-> request]

\* httpClientHeaderCheckSizeFn; mem is whether malloc gave the buffer.
httpClientHeaderCheckSizeFn(d, mem) ==
  [d EXCEPT !.downloadStatus = IF mem THEN "IN_PROGRESS" ELSE "FAILED"]

\* httpClientReceiveFileFn with a segment of bytes (ptr, NullPtr at the end
\* of the data), the error the client passes, whether malloc gave the
\* buffer and the outcome of the write.
httpClientReceiveFileFn(d, ptr, err, mem, io) ==
  IF IsNullPtr(ptr) THEN [d EXCEPT !.downloadStatus = "COMPLETED"]
  ELSE IF err # "ERR_OK" \/ ~mem THEN [d EXCEPT !.downloadStatus = "FAILED"]
  ELSE
    LET w == f_write(d.fs, d.file, ptr.at, io, 0)
        res == IF ~d.file.open THEN "FR_INVALID_OBJECT"
               ELSE IF io = "error" THEN "FR_DISK_ERR" ELSE "FR_OK"
        bytesWritten == w.fil.fptr - d.file.fptr
    IN  [d EXCEPT !.fs = w.vol, !.file = w.fil,
                  !.downloadStatus = IF res # "FR_OK" \/ bytesWritten # Len(ptr.at)
                                     THEN "FAILED" ELSE "IN_PROGRESS"]

\* httpClientResultCompleteFn; the transfer is over when the client calls it.
httpClientResultCompleteFn(d, err) ==
  [d EXCEPT !.request = [@ EXCEPT !.complete = TRUE, !.active = FALSE],
            !.downloadStatus = IF err = "ERR_OK" THEN "COMPLETED" ELSE "FAILED"]

\* What the network stack may call while it is polled.
Segment == Ptr(<<77>>)
Events ==
  {[cb |-> "headers", mem |-> m] : m \in BOOLEAN}
    \cup {[cb |-> "recv", ptr |-> Segment, err |-> "ERR_OK", mem |-> TRUE, io |-> io] :
            io \in {"ok", "short", "error"}}
    \cup {[cb |-> "recv", ptr |-> NullPtr, err |-> "ERR_OK", mem |-> TRUE, io |-> "ok"],
          [cb |-> "recv", ptr |-> Segment, err |-> "ERR_CONN", mem |-> TRUE, io |-> "ok"],
          [cb |-> "recv", ptr |-> Segment, err |-> "ERR_OK", mem |-> FALSE, io |-> "ok"]}
    \cup {[cb |-> "result", err |-> e] : e \in {"ERR_OK", "ERR_CONN"}}
NoEvent == [cb |-> "none"]
\* The callback of an event.
Callback(d, e) ==
  IF e.cb = "headers" THEN httpClientHeaderCheckSizeFn(d, e.mem)
  ELSE IF e.cb = "recv" THEN httpClientReceiveFileFn(d, e.ptr, e.err, e.mem, e.io)
  ELSE httpClientResultCompleteFn(d, e.err)
\* async_context_poll: the stack calls back for a transfer that is active.
Polled(d, e) == IF e = NoEvent \/ ~d.request.active THEN d ELSE Callback(d, e)
\* The event reports a transfer error, or a segment that could not be
\* written.
IsFailure(e) ==
  \/ e.cb = "result" /\ e.err # "ERR_OK"
  \/ e.cb = "recv" /\ ~IsNullPtr(e.ptr) /\ e.err # "ERR_OK"
  \/ e.cb = "recv" /\ ~IsNullPtr(e.ptr) /\ e.err = "ERR_OK" /\ e.mem /\ e.io # "ok"

\* snprintf(filename, sizeof(filename), "%s/%s", dst_folder, fileUrl.filename)
DownloadFilename(f) == StrNCpy(JoinPath(dst_folder, f.filename), BufflineSize)

\* download_start; sent is whether http_client_request_async took the
\* request (it clears request.complete before it sends).
download_start(sent) ==
  LET p == parseUrl(Ptr(url), components, fileUrl)
      filename == DownloadFilename(p.file)
      vol == f_chmod_clear_rdo(fs, filename)
      res == IF Locked(filename) THEN "FR_LOCKED"
             ELSE f_open_write_res(vol, FatPath(filename))
  IN  /\ components' = p.components
      /\ fileUrl' = p.file
      /\ IF p.ret # 0 THEN
           UNCHANGED <<fs, file, request, downloadStatus>>
         ELSE IF res # "FR_OK" THEN
           /\ fs' = vol
           /\ file' = f_close(file)
           /\ UNCHANGED <<request, downloadStatus>>
         ELSE
           /\ fs' = [vol EXCEPT ![FatPath(filename)] = EmptyFile]
           /\ file' = IF sent THEN OpenFil(FatPath(filename)) ELSE f_close(file)
           /\ downloadStatus' = "STARTED"
           /\ request' = [complete |-> FALSE, url |-> p.components.uri,
                          hostname |-> p.components.host, active |-> sent]

\* download_poll; e is what the network stack calls while it is polled.
download_poll(d, e) ==
  IF ~d.request.complete
    THEN [Polled(d, e) EXCEPT !.downloadStatus = "IN_PROGRESS"]
    ELSE [d EXCEPT !.downloadStatus = "COMPLETED"]

\* download_finish: the file is closed; the error it returns.
download_finish ==
  IF ~file.open THEN "DOWNLOAD_CANNOTCLOSEFILE_ERROR"
  ELSE IF downloadStatus # "COMPLETED" THEN "DOWNLOAD_FORCEDABORT_ERROR"
  ELSE "DOWNLOAD_OK"

\* The step of a session: a request to /download.cgi, a callback outside
\* download_poll, or a turn of the main loop; turn is the parity of the
\* turns of the loop so far.
Watch(last, params, page, failure) ==
  client' = [phase |-> "net", last |-> last, params |-> params, page |-> page,
             before |-> [url |-> url, dst_folder |-> dst_folder,
                         downloadStatus |-> downloadStatus],
             now |-> failure,
             failed |-> IF last = "cgi" THEN (client.failed /\ page # ProgressPage)
                        ELSE (client.failed \/ failure),
             inPoll |-> IF last = "cgi" THEN (client.inPoll /\ page # ProgressPage)
                        ELSE IF failure THEN last = "loop" ELSE client.inPoll,
             turn |-> IF last = "loop" THEN 1 - client.turn ELSE client.turn]

\* /download.cgi
DownloadRequest(params) ==
  LET r == cgi_download(params)
  IN  /\ IF r.stores THEN
           /\ download_setDstFolder(r.folder)
           /\ download_setUrl(r.url)
           /\ download_setStatus("REQUESTED")
         ELSE UNCHANGED <<dst_folder, url, downloadStatus>>
      /\ Watch("cgi", params, r.ret, FALSE)
      /\ UNCHANGED <<upload_contexts, download_contexts, fs, json_buff, postVars,
                     side, req, live, mon, mngrVars, components, fileUrl, file, request>>

\* The network stack calls back where the loop polls it (network_safePoll),
\* or from the background.
NetworkEvent(e) ==
  /\ request.active
  /\ e.cb = "recv" /\ ~IsNullPtr(e.ptr) /\ e.err = "ERR_OK" /\ e.mem /\ e.io = "ok" /\ file.open
       => Len(fs[file.path].data) < MaxReceived
  /\ LET d == Callback(Download, e)
     IN  /\ downloadStatus' = d.downloadStatus
         /\ fs' = d.fs
         /\ file' = d.file
         /\ request' = d.request
  /\ Watch("event", <<>>, NoPage, IsFailure(e))
  /\ UNCHANGED <<upload_contexts, download_contexts, json_buff, postVars,
                 side, req, live, mon, mngrVars, url, dst_folder, components, fileUrl>>

\* The switch on download_getStatus() in the loop of mngr_init; elapsed is
\* whether the start time has passed, sent and e as above.
DownloadSwitch(elapsed, sent, e) ==
  /\ e # NoEvent /\ e.cb = "recv" /\ ~IsNullPtr(e.ptr) /\ e.err = "ERR_OK" /\ e.mem /\ e.io = "ok" /\ file.open
       => Len(fs[file.path].data) < MaxReceived
  /\ IF downloadStatus \in {"STARTED", "IN_PROGRESS"} THEN
       LET d == download_poll(Download, e)
       IN  /\ downloadStatus' = d.downloadStatus
           /\ fs' = d.fs
           /\ file' = d.file
           /\ request' = d.request
           /\ UNCHANGED <<components, fileUrl>>
           /\ Watch("loop", <<>>, NoPage,
                    ~request.complete /\ request.active /\ e # NoEvent /\ IsFailure(e))
     ELSE IF downloadStatus = "REQUESTED" THEN
       /\ download_setStatus("NOT_STARTED")
       /\ UNCHANGED <<fs, file, request, components, fileUrl>>
       /\ Watch("loop", <<>>, NoPage, FALSE)
     ELSE IF downloadStatus = "NOT_STARTED" THEN
       /\ IF elapsed THEN download_start(sent)
          ELSE UNCHANGED <<fs, file, request, components, fileUrl, downloadStatus>>
       /\ Watch("loop", <<>>, NoPage, FALSE)
     ELSE IF downloadStatus = "COMPLETED" THEN
       /\ download_setStatus(IF download_finish # "DOWNLOAD_OK" THEN "FAILED" ELSE "IDLE")
       /\ file' = f_close(file)
       /\ UNCHANGED <<fs, request, components, fileUrl>>
       /\ Watch("loop", <<>>, NoPage, FALSE)
     ELSE
       /\ UNCHANGED <<fs, file, request, components, fileUrl, downloadStatus>>
       /\ Watch("loop", <<>>, NoPage, FALSE)
  /\ UNCHANGED <<upload_contexts, download_contexts, json_buff, postVars,
                 side, req, live, mon, mngrVars, url, dst_folder>>

\* "/d/a": the file of the URLs below in the folder /d, read-only at first.
PathDA == <<47, 100, 47, 97>>
NetVolume ==
  (PathD :> EmptyDir) @@ (PathDA :> [kind |-> "file", rdo |-> TRUE, hid |-> FALSE, data |-> <<1>>])
\* "a://a/a", "a://a/aa", "a%3A//a/a", "aa"; "/d", "%2Fd", "/d/e", "/x".
UrlA == <<97, 58, 47, 47, 97, 47, 97>>
UrlLong == <<97, 58, 47, 47, 97, 47, 97, 97>>
UrlEsc == <<97, 37, 51, 65, 47, 47, 97, 47, 97>>
UrlBad == <<97, 97>>
FolderEsc == <<37, 50, 70, 100>>
FolderLong == <<47, 100, 47, 101>>
PathX == <<47, 120>>
ParamLists ==
  { <<Param("folder", Ptr(PathX)), Param("folder", Ptr(PathD)), Param("url", Ptr(UrlA))>>,
    <<Param("url", Ptr(UrlLong)), Param("folder", Ptr(PathD))>>,
    <<Param("folder", Ptr(FolderEsc)), Param("url", Ptr(UrlEsc))>>,
    <<Param("folder", Ptr(FolderLong)), Param("url", Ptr(UrlBad))>>,
    <<Param("folder", Ptr(PathX)), Param("url", Ptr(UrlA))>>,
    <<Param("x", Ptr(PathD)), Param("folder", Ptr(<<>>)), Param("url", Ptr(<<>>))>>,
    <<Param("folder", Ptr(PathD))>>,
    <<Param("url", Ptr(UrlA))>>,
    <<Param("folder", NullPtr), Param("url", Ptr(UrlA))>>,
    <<Param("folder", Ptr(PathD)), Param("url", NullPtr)>>,
    <<Param("folder", Ptr(PathD)), Param("url", Ptr(UrlA)), Param("folder", NullPtr)>> }

InitNet ==
  /\ upload_contexts = [i \in UploadSlots |-> ZeroCtx]
  /\ download_contexts = [i \in DownloadSlots |-> ZeroCtx]
  /\ fs = NetVolume
  /\ json_buff = EmptyBuff
  /\ side = "net"
  /\ req = [dir |-> "", op |-> "", q |-> NoRequest]
  /\ live = {}
  /\ mon = [dir |-> "", phase |-> 0]
  /\ current_chunk_ctx = NULL
  /\ current_chunk_idx = 0
  /\ current_connection = NULL
  /\ posts = {}
  /\ MngrInit
  /\ DownloadInit
  /\ client = [phase |-> "net", last |-> "", params |-> <<>>, page |-> NoPage,
               before |-> [url |-> <<>>, dst_folder |-> <<>>, downloadStatus |-> "IDLE"],
               now |-> FALSE, failed |-> FALSE, inPoll |-> FALSE, turn |-> 0]

NextNet ==
  \/ \E params \in ParamLists : DownloadRequest(params)
  \/ \E e \in Events : NetworkEvent(e)
  \/ \E elapsed \in BOOLEAN, sent \in BOOLEAN, e \in Events \cup {NoEvent} :
       /\ downloadStatus \notin {"STARTED", "IN_PROGRESS"} => e = NoEvent
       /\ downloadStatus # "NOT_STARTED" => elapsed /\ sent
       /\ ~elapsed => sent
       /\ DownloadSwitch(elapsed, sent, e)

SpecNet == InitNet /\ [][NextNet]_vars


Net == client.phase = "net"
\* The places of the parameter called name, and the value of the last one.
Places(params, name) == {i \in 1 .. Len(params) : params[i].n = name}
LastValue(params, name) ==
  params[CHOOSE i \in Places(params, name) :
           \A j \in Places(params, name) : j <= i].v.at
\* Both parameters are there and each of their values can be decoded.
Decodable(params) ==
  /\ Places(params, "folder") # {}
  /\ Places(params, "url") # {}
  /\ \A i \in Places(params, "folder") \cup Places(params, "url") :
       ~IsNullPtr(params[i].v)
Cut(s, n) == SubSeq(s, 1, Min(Len(s), n))

C16_Refused ==
  /\ Net /\ client.last = "cgi"
  /\ client.page = ErrorPage("Bad request")
  /\ downloadStatus = "IN_PROGRESS"
  /\ url # <<>>

\* C17: once the HTTP client has reported a transfer error, or a segment
\* could not be written to the file, the status is failed and stays failed
\* until the next request to /download.cgi.
C17_StaysFailed == Net /\ client.failed => downloadStatus = "FAILED"

\* A failure that the stack reports outside download_poll gives the status
\* failed at once.
C17_FailedAtOnce ==
  Net /\ client.last = "event" /\ client.now => downloadStatus = "FAILED"


\* ---------------------------------------------------------------------
\* free_upload_ctx and free_download_ctx called again and again
\* ---------------------------------------------------------------------

\* Slots as the handlers leave them: in use with the file open, in use with
\* the file not opened (a start whose f_open failed, just before its
\* release), free with the token of the last transfer, never used.
SlotOpen == [token |-> T1, file |-> [OpenFil(PathA) EXCEPT !.fptr = 1], in_use |-> TRUE]
SlotUnopened == [token |-> T2, file |-> ClosedFil, in_use |-> TRUE]
SlotStale == [token |-> T1, file |-> ClosedFil, in_use |-> FALSE]
SlotKinds == <<SlotOpen, SlotUnopened, SlotStale, ZeroCtx>>
FreePools ==
  {[i \in UploadSlots |-> SlotKinds[((i + k) % 4) + 1]] : k \in 0 .. 3}
    \cup {[i \in UploadSlots |-> IF i = k THEN SlotOpen ELSE SlotUnopened] : k \in 0 .. 1}

InitFree ==
  /\ upload_contexts \in FreePools
  /\ download_contexts \in FreePools
  /\ fs = PoolVolume
  /\ json_buff = EmptyBuff
  /\ side = "pools"
  /\ req = [dir |-> "", op |-> "", q |-> NoRequest]
  /\ live = {}
  /\ mon = [dir |-> "", phase |-> 0]
  /\ current_chunk_ctx = NULL
  /\ current_chunk_idx = 0
  /\ current_connection = NULL
  /\ posts = {}
  /\ MngrInit
  /\ DownloadInit
  /\ client = [phase |-> "free", calls |-> 0, dir |-> "", i |-> NULL,
               before |-> <<>>, prev |-> [dir |-> "", i |-> NULL, in_use |-> FALSE]]

\* The record of a call: the pool before it, and the call before it.
Freed(dir, i, pool) ==
  client' = [phase |-> "free", calls |-> client.calls + 1, dir |-> dir, i |-> i,
             before |-> pool,
             prev |-> IF client.calls = 0 THEN client.prev
                      ELSE [dir |-> client.dir, i |-> client.i,
                            in_use |-> client.before[client.i].in_use]]

free_upload_ctx(i) ==
  /\ client.calls < MaxFrees
  /\ upload_contexts' = free_ctx(upload_contexts, i)
  /\ Freed("upload", i, upload_contexts)
  /\ UNCHANGED <<download_contexts, fs, json_buff, postVars, side, req, live, mon,
                 mngrVars, dlVars>>

free_download_ctx(i) ==
  /\ client.calls < MaxFrees
  /\ download_contexts' = free_ctx(download_contexts, i)
  /\ Freed("download", i, download_contexts)
  /\ UNCHANGED <<upload_contexts, fs, json_buff, postVars, side, req, live, mon,
                 mngrVars, dlVars>>

NextFree ==
  \/ \E i \in UploadSlots : free_upload_ctx(i)
  \/ \E i \in DownloadSlots : free_download_ctx(i)

SpecFree == InitFree /\ [][NextFree]_vars

FreeCalled == client.phase = "free" /\ client.calls > 0
\* The pool the last call was made on, as it is now.
FreedPool == IF client.dir = "upload" THEN upload_contexts ELSE download_contexts

\* C18: a release of a slot in use closes its file and marks the slot free,
\* touching nothing else; a release of a slot that is free closes nothing
\* and changes nothing, so a second release of a slot leaves what the first
\* one left.
C18_ReleaseIdempotent ==
  FreeCalled =>
    IF client.before[client.i].in_use THEN
      /\ ~FreedPool[client.i].in_use
      /\ ~FreedPool[client.i].file.open
      /\ FreedPool[client.i].token = client.before[client.i].token
      /\ \A j \in DOMAIN FreedPool : j # client.i => FreedPool[j] = client.before[j]
    ELSE FreedPool = client.before

\* A slot in use with its file open was released, and released again.
C18_Witness ==
  /\ FreeCalled
  /\ client.calls >= 2
  /\ client.prev.dir = client.dir /\ client.prev.i = client.i
  /\ client.prev.in_use
  /\ ~client.before[client.i].in_use
  /\ FreedPool = client.before


\* ---------------------------------------------------------------------
\* Uploads and downloads side by side
\* ---------------------------------------------------------------------

\* The requests served so far, and the two pools before the last one.
Pools == [phase |-> "both", n |-> 0, up |-> upload_contexts, down |-> download_contexts]
Counted ==
  /\ client.n < MaxRequests
  /\ client' = [Pools EXCEPT !.n = client.n + 1]

InitBoth ==
  /\ upload_contexts = [i \in UploadSlots |-> ZeroCtx]
  /\ download_contexts = [i \in DownloadSlots |-> ZeroCtx]
  /\ fs = PoolVolume
  /\ json_buff = EmptyBuff
  /\ side = "both"
  /\ req = [dir |-> "", op |-> "", q |-> NoRequest]
  /\ live = {}
  /\ mon = [dir |-> "", phase |-> 0]
  /\ current_chunk_ctx = NULL
  /\ current_chunk_idx = 0
  /\ current_connection = NULL
  /\ posts = {}
  /\ MngrInit
  /\ DownloadInit
  /\ client = Pools

NextBoth ==
  \/ \E q \in StartReqs({T1}, {PathN}) : cgi_upload_start(q) /\ Counted
  \/ \E q \in UploadChunkReqs({T1}, {0}, {PayloadM}) :
       cgi_upload_chunk(q, "ok", 0) /\ Counted
  \/ \E q \in TokenReqs({T1}) : cgi_upload_end(q) /\ Counted
  \/ \E q \in TokenReqs({T1}) : cgi_upload_cancel(q) /\ Counted
  \/ \E q \in StartReqs({T1}, {PathA}) : cgi_download_start(q) /\ Counted
  \/ \E q \in DownloadChunkReqs({T1}, {0}) : cgi_download_chunk(q, "ok") /\ Counted
  \/ \E q \in TokenReqs({T1}) : cgi_download_end(q) /\ Counted
  \/ \E q \in TokenReqs({T1}) : cgi_download_cancel(q) /\ Counted

SpecBoth == InitBoth /\ [][NextBoth]_vars

Both == client.phase = "both"
Full(pool) == \A i \in DOMAIN pool : pool[i].in_use

\* C20: an upload request leaves every download slot as it was and a
\* download request every upload slot; a start is refused for want of a
\* context exactly when the 4 slots of its own pool are in use, whatever
\* the other pool holds.
C20_PoolsIndependent ==
  Both =>
    /\ req.dir = "upload" => download_contexts = client.down
    /\ req.dir = "download" => upload_contexts = client.up
    /\ FullStart(req, "upload") =>
         (json_buff = Err("no context available") <=> Full(client.up))
    /\ FullStart(req, "download") =>
         (json_buff = Err("no context available") <=> Full(client.down))

\* The token is active in both pools, each context with its own file; the
\* upload pool is full, the download pool is not, and an upload start has
\* just been refused.
C20_Witness ==
  /\ Both
  /\ FullStart(req, "upload") /\ json_buff = Err("no context available")
  /\ Full(upload_contexts) /\ ~Full(download_contexts)
  /\ find_upload_ctx(T1) # NULL /\ find_download_ctx(T1) # NULL
  /\ upload_contexts[find_upload_ctx(T1)].file.open
  /\ download_contexts[find_download_ctx(T1)].file.open
  /\ upload_contexts[find_upload_ctx(T1)].file.path
       # download_contexts[find_download_ctx(T1)].file.path

\* Both pools are full at once.
C20_BothFull == Both /\ Full(upload_contexts) /\ Full(download_contexts)


\* ---------------------------------------------------------------------
\* The file positions of chunk indices, in 32-bit arithmetic
\* ---------------------------------------------------------------------

\* A DWORD (unsigned 32 bits) as its two 16-bit halves.
HalfWord == 65536
INT_MAX == 2147483647
ToDword(n) == [hi |-> n \div HalfWord, lo |-> n % HalfWord]
\* w * k in unsigned 32-bit arithmetic, for a factor k below 65536.
MulDword(w, k) ==
  [hi |-> (w.hi * k + (w.lo * k) \div HalfWord) % HalfWord,
   lo |-> (w.lo * k) % HalfWord]
\* chunk * k with both operands int: the product when it is an int; a signed
\* overflow is undefined, ub is what the build makes of it.
MulInt(chunk, k, ub) ==
  IF chunk <= INT_MAX \div k THEN ToDword(chunk * k)
  ELSE IF ub = "wraps" THEN MulDword(ToDword(chunk), k)
  ELSE IF ub = "max" THEN ToDword(INT_MAX)
  ELSE ToDword(0)

\* cgi_upload_chunk: f_lseek(&ctx->file, (DWORD)(chunk * UPLOAD_CHUNK_SIZE))
UploadSeek(chunk, ub) == MulInt(chunk, UPLOAD_CHUNK_SIZE, ub)
\* httpd_post_begin: (DWORD)(current_chunk_idx * UPLOAD_CHUNK_SIZE), the
\* index unsigned
PostSeek(idx) == MulDword(ToDword(idx), UPLOAD_CHUNK_SIZE)
\* cgi_download_chunk: (DWORD)chunk * DOWNLOAD_CHUNK_SIZE
DownloadSeek(chunk) == MulDword(ToDword(chunk), DOWNLOAD_CHUNK_SIZE)

OfsIndices ==
  {k * OfsStride + j : k \in 0 .. OfsSteps - 1, j \in {0, 1, 15}}
    \cup {k * OfsStride - 1 : k \in 1 .. OfsSteps}

InitOfs ==
  /\ StaticInit
  /\ side = "seek"
  /\ \E path \in {"form", "raw", "download"}, chunk \in OfsIndices,
        ub \in {"wraps", "max", "zero"} :
       client = [phase |-> "call", path |-> path, chunk |-> chunk, ub |-> ub]

\* The handler seeks to the position of the chunk.
ChunkSeek ==
  /\ client.phase = "call"
  /\ client' = [client EXCEPT !.phase = "done"] @@
       [pos |-> IF client.path = "form" THEN UploadSeek(client.chunk, client.ub)
                ELSE IF client.path = "raw" THEN PostSeek(client.chunk)
                ELSE DownloadSeek(client.chunk)]
  /\ UNCHANGED <<upload_contexts, download_contexts, fs, json_buff, postVars,
                 side, req, live, mon, mngrVars, dlVars>>

NextOfs == ChunkSeek
SpecOfs == InitOfs /\ [][NextOfs]_vars

Sought == "pos" \in DOMAIN client
\* The size of the chunks of a path, and the indices whose position fits
\* in 32 bits: those below 2^32 / size.
ChunkSizeOf(path) == IF path = "download" THEN DOWNLOAD_CHUNK_SIZE ELSE UPLOAD_CHUNK_SIZE
FitsDword(path, chunk) == chunk < (HalfWord \div ChunkSizeOf(path)) * HalfWord
\* index * size for such an index, as the halves of the 32-bit number.
Position(path, chunk) ==
  LET perHalf == HalfWord \div ChunkSizeOf(path)
  IN  [hi |-> chunk \div perHalf, lo |-> (chunk % perHalf) * ChunkSizeOf(path)]

\* C21: for every chunk index whose position fits in 32 bits, the form
\* path and the raw path seek to index * 4096 and the download path to
\* index * 2048.
C21_ChunkPosition ==
  Sought /\ FitsDword(client.path, client.chunk)
    => client.pos = Position(client.path, client.chunk)

\* The raw path and the download path multiply unsigned; the form path is
\* exact as long as the product is an int.
C21_UnsignedPaths ==
  Sought /\ FitsDword(client.path, client.chunk)
         /\ (client.path = "form" => client.chunk * 2 < HalfWord * 16)
    => client.pos = Position(client.path, client.chunk)
\* A position of 2 GiB and more has been sought on the raw path.
C21_HighHalf ==
  Sought /\ client.path = "raw" /\ client.pos.hi >= 32768 /\ client.pos.lo > 0


\* ---------------------------------------------------------------------
\* Writes of the form path that fail or fall short
\* ---------------------------------------------------------------------

InitWr ==
  /\ StaticInit
  /\ side = "upload"
  /\ client = [phase |-> "write", sends |-> 0, io |-> "", ofs |-> 0, bytes |-> <<>>,
               path |-> <<>>, fptr |-> 0]

\* "TQ", a payload that is not base64.
PayloadBad == <<84, 81>>

WrStart(q) ==
  /\ InUse(upload_contexts) = {}
  /\ cgi_upload_start(q)
  /\ UNCHANGED client
\* A chunk request whose f_write has the outcome io; the client notes what
\* it sent and where the file pointer of its context is afterwards.
WrChunk(q, io, fill) ==
  /\ client.sends < MaxSends
  /\ cgi_upload_chunk(q, io, fill)
  /\ client' =
       LET ctx == find_upload_ctx(q.token)
       IN  IF ctx = NULL \/ ~Has(q, "chunk") \/ ~Has(q, "payload")
             THEN [client EXCEPT !.io = "", !.sends = @ + 1]
           ELSE [phase |-> "write", sends |-> client.sends + 1, io |-> io, ofs |-> UploadOffset(atoi(q.chunk)),
                 bytes |-> ClientDecode(url_decode(q.payload, Len(q.payload) + 1).out),
                 path |-> upload_contexts[ctx].file.path,
                 fptr |-> upload_contexts'[ctx].file.fptr]
WrEnd(q) ==
  /\ cgi_upload_end(q)
  /\ client' = [client EXCEPT !.io = ""]

NextWr ==
  \/ \E q \in {[token |-> T1, fullpath |-> PathN]} : WrStart(q)
  \/ \E q \in UploadChunkReqs({T1}, 0 .. MaxChunk, {PayloadEsc, PayloadBad, <<>>}),
        io \in {"ok", "short", "err"} :
       WrChunk(q, io, 0)
  \/ \E q \in {[token |-> T1]} : WrEnd(q)

SpecWr == InitWr /\ [][NextWr]_vars

\* The last request was a chunk that got as far as f_write.
Wrote ==
  /\ client.phase = "write" /\ client.io # ""
  /\ json_buff \in {Status("chunk_ok"), Err("write failed")}
\* The bytes of the file that the write was to fill.
WrittenRange ==
  SubSeq(fs[client.path].data, client.ofs + 1,
         Min(Len(fs[client.path].data), client.ofs + Len(client.bytes)))

\* C22: when f_write fails, or stores fewer bytes than the decoded payload
\* has, the answer is "write failed"; the answer is chunk_ok only when all
\* the decoded bytes are in the file at the position of the chunk.
C22_WriteFailed ==
  Wrote =>
    /\ client.io = "err" => json_buff = Err("write failed")
    /\ client.fptr - client.ofs # Len(client.bytes) => json_buff = Err("write failed")
    /\ WrittenRange # client.bytes => json_buff = Err("write failed")
    /\ json_buff = Status("chunk_ok") =>
         client.io = "ok" \/ (client.io = "short" /\ client.bytes = <<>>)

\* A write of three bytes stored two and was answered "write failed".
C22_Witness ==
  /\ Wrote
  /\ client.io = "short"
  /\ Len(client.bytes) = 3
  /\ client.fptr - client.ofs = 2
  /\ json_buff = Err("write failed")
\* A whole write was answered chunk_ok.
C22_WholeWrite ==
  Wrote /\ client.io = "ok" /\ Len(client.bytes) = 3 /\ json_buff = Status("chunk_ok")

-----------------------------------------------------------------------------
(* The raw-binary path against the form path: one client sends the same    *)
(* bytes for the same chunk by either path; every write succeeds.          *)

\* The number of chunks a run sends.
MaxEqSends == 2
\* A token of 32 characters ("tt...t"): one more than a context holds.
TLong == [k \in 1 .. TOKEN_SIZE |-> 116]
\* The bodies of the chunks: "TQ==", "+wA=" and "/wBN" in base64.
EqBodies == {<<77>>, <<251, 0>>, <<255, 0, 77>>}
\* The payload parameter a client makes of base64 text: '+' and '/' are
\* percent-encoded ("%2B", "%2F").
RECURSIVE PercentEncode(_)
PercentEncode(text) ==
  IF text = <<>> THEN <<>>
  ELSE (IF Head(text) = 43 THEN <<37, 50, 66>>
        ELSE IF Head(text) = 47 THEN <<37, 50, 70>>
        ELSE <<Head(text)>>) \o PercentEncode(Tail(text))
FormPayload(B) == PercentEncode(base64_encode_from(B, 1))
\* A body as a pbuf chain of one segment or of two.
SegsOf(s) ==
  {<< s >>} \cup {<< SubSeq(s, 1, k), SubSeq(s, k + 1, Len(s)) >> : k \in 1 .. Len(s) - 1}
\* B at the position of chunk i of a file that held `before`.
Place(before, i, B, fill) ==
  WriteAt(Extend(before, i * UlChunk, fill), i * UlChunk, B)

InitEq ==
  /\ StaticInit
  /\ side = "upload"
  /\ client = [phase |-> "equiv", sends |-> 0, started |-> <<>>,
               last |-> NoSend, cur |-> NoPost]

\* What the client notes of a send that is over.
EqSent(by, token, i, B, fill, before, accepted) ==
  [key |-> by, token |-> token, i |-> i, B |-> B, fill |-> fill,
   before |-> before, after |-> fs'[PathN].data, accepted |-> accepted]

EqStart(q) ==
  /\ InUse(upload_contexts) = {}
  /\ client.cur = NoPost
  /\ cgi_upload_start(q)
  /\ client' = [client EXCEPT !.last = NoSend,
                  !.started = IF IsError(json_buff') THEN @ ELSE q.token]

EqEnd(q) ==
  /\ client.cur = NoPost
  /\ cgi_upload_end(q)
  /\ client' = [client EXCEPT !.last = NoSend,
                  !.started = IF IsError(json_buff') THEN @ ELSE <<>>]

\* The form path: B as the payload parameter.
EqForm(token, i, B, fill) ==
  /\ client.sends < MaxEqSends
  /\ client.cur = NoPost
  /\ cgi_upload_chunk([token |-> token, chunk |-> ChunkStr(i), payload |-> FormPayload(B)],
                      "ok", fill)
  /\ client' = [client EXCEPT
       !.sends = @ + 1,
       !.last = EqSent("form", token, i, B, fill, fs[PathN].data,
                       IsStatus(json_buff', "chunk_ok"))]

\* The raw-binary path: B as the body of a POST.
EqPostBegin(conn, token, i, B, fill) ==
  /\ client.sends < MaxEqSends
  /\ client.cur = NoPost
  /\ httpd_post_begin(conn, PostUri(token, i), fill)
  /\ client' =
       IF conn \in posts' THEN
         [client EXCEPT
            !.last = NoSend,
            !.cur = [conn |-> conn, token |-> token, i |-> i, B |-> B, left |-> B,
                     fill |-> fill, before |-> fs[PathN].data]]
       ELSE
         [client EXCEPT
            !.sends = @ + 1,
            !.last = EqSent("raw", token, i, B, fill, fs[PathN].data, FALSE)]

\* The next n bytes of the body arrive, in one segment or in two.
EqPostData(n) ==
  /\ client.cur # NoPost
  /\ n \in 1 .. Len(client.cur.left)
  /\ \E p \in SegsOf(SubSeq(client.cur.left, 1, n)) :
       httpd_post_receive_data(client.cur.conn, p, [k \in 1 .. Len(p) |-> "ok"], 0)
  /\ client' = [client EXCEPT !.cur.left = SubSeq(@, n + 1, Len(@))]

EqPostFinished ==
  /\ client.cur # NoPost
  /\ client.cur.left = <<>>
  /\ httpd_post_finished(client.cur.conn)
  /\ client' = [client EXCEPT
       !.sends = @ + 1,
       !.cur = NoPost,
       !.last = EqSent("raw", client.cur.token, client.cur.i, client.cur.B,
                       client.cur.fill, client.cur.before, TRUE)]

NextEq ==
  \/ \E t \in {T1, TLong} : EqStart([token |-> t, fullpath |-> PathN])
  \/ \E t \in {T1, T2, TLong}, i \in 0 .. MaxChunk, B \in EqBodies, fill \in Bytes :
       EqForm(t, i, B, fill)
  \/ \E t \in {T1, T2, TLong}, i \in 0 .. MaxChunk, B \in EqBodies, fill \in Bytes :
       EqPostBegin(1, t, i, B, fill)
  \/ \E n \in 1 .. 3 : EqPostData(n)
  \/ EqPostFinished
  \/ \E t \in {T1, TLong} : EqEnd([token |-> t])

SpecEq == InitEq /\ [][NextEq]_vars

\* A send is over; its token is the one the client started and has not ended.
EqOver == client.phase = "equiv" /\ client.last # NoSend
EqOfStarted == EqOver /\ client.last.token = client.started
\* The outcome the claim gives a send: B at the position of chunk i for a
\* started token, by either path; nothing written, and a POST refused, for
\* a token without a context.
EqOutcome ==
  IF EqOfStarted
    THEN /\ client.last.accepted
         /\ client.last.after =
              Place(client.last.before, client.last.i, client.last.B, client.last.fill)
    ELSE /\ ~client.last.accepted
         /\ client.last.after = client.last.before

\* C23: for a started token, a chunk index i and bytes B, the POST of B to
\* /upload_chunk.cgi (post_begin, data segments, post_finished) and the
\* request with base64(B) as its payload parameter both leave the file with
\* B at the position of chunk i, the segments in the order of arrival; a
\* POST whose token has no context is refused and writes nothing.
C23_RawEqualsForm == EqOver => EqOutcome

\* The same for uploads started with a token a context holds whole (fewer
\* than 32 characters).
C23_ShortTokens == (EqOver /\ Len(client.started) < TOKEN_SIZE) => EqOutcome
\* Three bytes arrived in three data callbacks for chunk 1 of a started
\* short token and are in the file.
C23_RawStored ==
  /\ EqOfStarted /\ client.started = T1
  /\ client.last.key = "raw" /\ client.last.i = 1 /\ Len(client.last.B) = 3
  /\ client.last.after = Place(client.last.before, 1, client.last.B, client.last.fill)
  /\ client.last.before # <<>>
\* A token of 32 characters was started; the form path refused its chunk.
C23_LongRefused ==
  /\ EqOfStarted /\ client.started = TLong
  /\ client.last.key = "form" /\ ~client.last.accepted

-----------------------------------------------------------------------------
(* The steps of one mngr_loop call *)

\* The call of mngr_loop in progress has dispatched a command.
DispatchedNow ==
  host.disp # <<>> /\ host.disp[Len(host.disp)].call = host.calls
\* The steps of this transition: mngr_loop reads the flag, dispatches,
\* writes to the shared memory, returns.
ReadsFlag == mngr.pc = "idle" /\ mngr'.pc # "idle"
DispatchStep == host'.disp # host.disp
SharedWrite == memoryRandomTokenAddress # 0 /\ shared' # shared
Returns == mngr.pc # "idle" /\ mngr'.pc = "idle"

\* C24: a call of mngr_loop dispatches only when the valid flag was set at
\* its read, dispatches at most once, by the command id, then writes the
\* token it read (and a seed) to the shared memory, then clears the flag
\* and returns; a call that read the flag clear dispatches nothing, writes
\* nothing to the shared memory and clears the flag.
C24_LoopOrder ==
  [][ /\ ReadsFlag =>
           /\ mngr'.pc = (IF lastProtocolValid THEN "token" ELSE "clear")
           /\ ~DispatchStep /\ shared' = shared
      /\ DispatchStep =>
           /\ mngr.pc = "switch" /\ mngr'.pc = "reply"
           /\ ~DispatchedNow
           /\ Len(host'.disp) = Len(host.disp) + 1
           /\ host'.disp[Len(host'.disp)].id = lastProtocol.command_id
           /\ startBooster' = (startBooster \/ lastProtocol.command_id = APP_BOOSTER_START)
           /\ shared' = shared /\ lastProtocolValid' = lastProtocolValid
      /\ SharedWrite =>
           /\ mngr.pc = "reply" /\ mngr'.pc = "clear"
           /\ DispatchedNow /\ ~DispatchStep
           /\ shared'.token = mngr.randomToken
      /\ (mngr.pc = "reply" /\ mngr'.pc # "reply") =>
           /\ shared'.token = mngr.randomToken /\ mngr'.pc = "clear"
      /\ Returns =>
           /\ mngr.pc = "clear" /\ ~lastProtocolValid'
           /\ ~DispatchStep /\ shared' = shared
      /\ (mngr.pc = "token" /\ mngr'.pc # "token") => mngr'.pc = "switch"
      /\ (lastProtocolValid /\ ~lastProtocolValid') => Returns
    ]_vars

\* A call found the flag clear and returned; the next call dispatched the
\* booster command, wrote its token (2) to the shared memory and cleared
\* the flag.
C24_Witness ==
  /\ mngr.pc = "idle" /\ host.calls = 2
  /\ Len(host.disp) = 1 /\ host.disp[1].call = 2
  /\ host.disp[1].id = APP_BOOSTER_START
  /\ shared.token = host.disp[1].token /\ shared.token # 0
  /\ ~lastProtocolValid /\ startBooster

-----------------------------------------------------------------------------
(* The restart flag and the end of the main loop of mngr_init *)

\* The steps of the main loop: it runs without pause, one step after the
\* other, so a step that stays possible is taken.
LoopStep ==
  /\ \/ mngr_loop_token
     \/ mngr_loop_switch
     \/ \E seed \in Seeds : mngr_loop_reply(seed)
     \/ mngr_loop_clear
     \/ mngr_init_exit
  /\ UNCHANGED <<httpVars, dlVars>>

NextBoot ==
  \/ NextMbox
  \/ mngr_init_exit /\ UNCHANGED <<httpVars, dlVars>>

SpecBoot == InitMbox /\ [][NextBoot]_vars /\ WF_vars(LoopStep)

\* C25: startBooster becomes true only in the dispatch of a command with
\* the id APP_BOOSTER_START; the dispatch of any other id leaves it as it
\* is; it is never reset; once it is true no further turn of the main loop
\* begins, the loop is left at its next check and the firmware jumps to
\* the booster.
C25_Restart ==
  /\ [][ /\ (startBooster' # startBooster) =>
              /\ DispatchStep
              /\ lastProtocol.command_id = APP_BOOSTER_START
         /\ (DispatchStep /\ lastProtocol.command_id # APP_BOOSTER_START) =>
              startBooster' = startBooster
         /\ (DispatchStep /\ lastProtocol.command_id = APP_BOOSTER_START) =>
              startBooster'
         /\ startBooster => startBooster'
         /\ startBooster => host'.calls = host.calls
         /\ (startBooster /\ mngr.pc = "idle" /\ mngr'.pc # "idle") =>
              mngr'.pc = "booster"
         /\ mngr.pc = "booster" => mngr'.pc = "booster"
       ]_vars
  /\ (startBooster ~> (mngr.pc = "booster"))

\* The first command, of another id, was dispatched and left the flag
\* clear; the booster command was dispatched by the next call and the
\* firmware has left the loop.
C25_Witness ==
  /\ mngr.pc = "booster" /\ startBooster
  /\ Len(host.disp) = 2
  /\ host.disp[1].id # APP_BOOSTER_START
  /\ host.disp[2].id = APP_BOOSTER_START
  /\ host.calls = host.disp[2].call

-----------------------------------------------------------------------------
(* The statements of handle_protocol_command, one after the other: the     *)
(* header (lines 36-39), the payload (lines 42-48), the flag (line 50).    *)
(* The units of a payload are those of payload_size.                       *)

\* What the mailbox held before: a command of its own, payload 7 7 ...
OldProtocol ==
  [command_id |-> 7, payload_size |-> 7, bytes_read |-> 7, final_checksum |-> 7,
   payload |-> [i \in 1 .. PayloadWords |-> 7]]
\* The frames the parser hands over: every payload size up to two above
\* the buffer's.
CopyFrames ==
  {[command_id |-> c, payload_size |-> s, bytes_read |-> r, final_checksum |-> 3,
    payload |-> pl] :
     c \in {APP_BOOSTER_START, 1}, s \in 0 .. PayloadWords + 2, r \in {0, 5},
     pl \in [1 .. PayloadWords -> {1, 2}]}

InitCopy ==
  /\ upload_contexts = [i \in UploadSlots |-> ZeroCtx]
  /\ download_contexts = [i \in DownloadSlots |-> ZeroCtx]
  /\ fs = (PathN :> NoNode)
  /\ json_buff = EmptyBuff
  /\ req = [dir |-> "", op |-> "", q |-> NoRequest]
  /\ live = {}
  /\ mon = [dir |-> "", phase |-> 0]
  /\ current_chunk_ctx = NULL
  /\ current_chunk_idx = 0
  /\ current_connection = NULL
  /\ posts = {}
  /\ DownloadInit
  /\ startBooster = FALSE
  /\ memoryRandomTokenAddress = 1
  /\ shared = [token |-> 0, seed |-> 0]
  /\ mngr = IdleLoop
  /\ host = NoHost
  /\ side = "host"
  /\ \E f \in CopyFrames, valid \in BOOLEAN, before \in {ZeroProtocol, OldProtocol} :
       /\ client = [phase |-> "call", protocol |-> f, asked |-> 0, before |-> before,
                    valid |-> valid]
       /\ lastProtocol = before
       /\ lastProtocolValid = valid

CopyUnchanged ==
  UNCHANGED <<upload_contexts, download_contexts, fs, json_buff, postVars, side,
              req, live, mon, startBooster, memoryRandomTokenAddress, shared, mngr,
              host, dlVars>>

\* lines 36-39
handle_protocol_command_header ==
  /\ client.phase = "call"
  /\ lastProtocol' = [lastProtocol EXCEPT
       !.command_id = client.protocol.command_id,
       !.payload_size = client.protocol.payload_size,
       !.bytes_read = client.protocol.bytes_read,
       !.final_checksum = client.protocol.final_checksum]
  /\ client' = [client EXCEPT !.phase = "header"]
  /\ UNCHANGED lastProtocolValid
  /\ CopyUnchanged

\* lines 42-48; the observer notes the size memcpy is asked to copy.
handle_protocol_command_payload ==
  /\ client.phase = "header"
  /\ LET size == ClampSize(client.protocol.payload_size)
     IN  /\ lastProtocol' = [lastProtocol EXCEPT
              !.payload = memcpy(@, client.protocol.payload, size)]
         /\ client' = [client EXCEPT !.phase = "payload", !.asked = size]
  /\ UNCHANGED lastProtocolValid
  /\ CopyUnchanged

\* line 50
handle_protocol_command_valid ==
  /\ client.phase = "payload"
  /\ lastProtocolValid' = TRUE
  /\ client' = [client EXCEPT !.phase = "done"]
  /\ UNCHANGED lastProtocol
  /\ CopyUnchanged

NextCopy ==
  \/ handle_protocol_command_header
  \/ handle_protocol_command_payload
  \/ handle_protocol_command_valid

SpecCopy == InitCopy /\ [][NextCopy]_vars

\* The payload the mailbox is to hold: the first n units of the frame's,
\* the rest as before.
CopiedPayload(n) ==
  [i \in 1 .. PayloadWords |->
     IF i <= n THEN client.protocol.payload[i] ELSE client.before.payload[i]]
CopyDone == client.phase = "done"

\* C26: for a frame with a valid checksum the callback copies command id,
\* payload size, bytes read and checksum as they are, copies exactly
\* min(payload_size, size of the payload buffer) units of the payload, asks
\* memcpy for no more than the buffer holds, and writes the valid flag only
\* after the copy.
C26_MailboxCopy ==
  /\ CopyDone =>
       /\ lastProtocol.command_id = client.protocol.command_id
       /\ lastProtocol.payload_size = client.protocol.payload_size
       /\ lastProtocol.bytes_read = client.protocol.bytes_read
       /\ lastProtocol.final_checksum = client.protocol.final_checksum
       /\ lastProtocol.payload =
            CopiedPayload(Min(client.protocol.payload_size, PayloadWords))
       /\ client.asked = Min(client.protocol.payload_size, PayloadWords)
       /\ lastProtocolValid
  /\ (client.phase \in {"call", "header", "payload", "done"}) =>
       /\ client.asked <= Len(lastProtocol.payload)
       /\ client.phase # "done" => lastProtocolValid = client.valid

\* A frame with a payload size above the buffer's was copied into a mailbox
\* whose flag was clear.
C26_Witness ==
  /\ CopyDone
  /\ client.protocol.payload_size = PayloadWords + 2
  /\ client.before = OldProtocol /\ ~client.valid
  /\ lastProtocol.payload = client.protocol.payload
  /\ lastProtocolValid
\* A frame with a payload shorter than the buffer left the rest as it was.
C26_Shorter ==
  /\ CopyDone
  /\ client.protocol.payload_size = 1
  /\ lastProtocol.payload[1] = 2 /\ lastProtocol.payload[PayloadWords] = 7

-----------------------------------------------------------------------------
(* The address the DMA interrupt handler hands to the protocol parser *)

\* The addresses the DMA channel latches: the banks of the ROM in RAM
\* (0x20020000 and 0x20030000, the second with the ROM3 signal) and offsets
\* over the whole low word, at each multiple of AddrStride and next to it.
AddrStride == 4096
AddrSteps == 16
RomBase == 537001984
LatchedAddrs ==
  {RomBase + b * ROM3_SIGNAL + k * AddrStride + j :
     b \in 0 .. 1, k \in 0 .. AddrSteps - 1, j \in {0, 1, AddrStride - 1}}

InitIrq ==
  /\ StaticInit
  /\ side = "host"
  /\ \E addr \in LatchedAddrs : client = [phase |-> "call", addr |-> addr]

\* One interrupt; the observer notes whether tprotocol_parse was called,
\* and with which value.  The parser has no frame complete yet.
DmaIrq ==
  /\ client.phase = "call"
  /\ mngr_dma_irq_handler_lookup(client.addr, [kind |-> "more"])
  /\ client' = [phase |-> "done", addr |-> client.addr,
                fed |-> Rom3Signal(client.addr),
                value |-> IF Rom3Signal(client.addr) THEN addr_lsb(client.addr) ELSE 0]
  /\ UNCHANGED <<upload_contexts, download_contexts, fs, json_buff, postVars, side,
                 req, live, mon, dlVars>>

NextIrq == DmaIrq
SpecIrq == InitIrq /\ [][NextIrq]_vars

IrqDone == client.phase = "done"
\* The low word of the latched address, and its 15 offset bits.
LowWord == client.addr % (2 * ADDRESS_HIGH_BIT)
OffsetBits == client.addr % ADDRESS_HIGH_BIT
SentinelSet == (client.addr \div ROM3_SIGNAL) % 2 = 1

\* C27 as stated: the parser is fed exactly when the sentinel bit of the
\* latched address is set, and the value passed is the address with the
\* high bit stripped: the offset bits below it, unchanged, as a 16-bit value.
C27_HighBitStripped ==
  IrqDone =>
    /\ client.fed <=> SentinelSet
    /\ client.fed => client.value = OffsetBits

\* C27, amended: the parser is fed exactly when bit 16 of the latched
\* address (the ROM3 signal) is set, and the value passed is the low word of
\* the address with bit 15 (ADDRESS_HIGH_BIT) inverted: cleared when it was
\* set, set when it was clear, the 15 bits below it unchanged and the bits
\* above the low word, the signal among them, cut off.
C27_HighBitInverted ==
  IrqDone =>
    /\ client.fed <=> SentinelSet
    /\ client.fed =>
         /\ client.value < 2 * ADDRESS_HIGH_BIT
         /\ client.value % ADDRESS_HIGH_BIT = OffsetBits
         /\ (client.value >= ADDRESS_HIGH_BIT) <=> (LowWord < ADDRESS_HIGH_BIT)

\* An address with the signal and with bit 15 clear reached the parser with
\* bit 15 set.
C27_Witness ==
  /\ IrqDone /\ client.fed
  /\ LowWord = AddrStride + 1
  /\ client.value = ADDRESS_HIGH_BIT + AddrStride + 1
\* An address without the signal did not reach the parser.
C27_NotFed == IrqDone /\ ~SentinelSet /\ ~client.fed /\ LowWord >= ADDRESS_HIGH_BIT

-----------------------------------------------------------------------------
(* The parts of one response: the server calls ssi_handler for the JSONPLD *)
(* tag with part 0 and goes on with the part the handler asks for; no      *)
(* handler writes json_buff meanwhile.                                     *)

\* The lengths of the buffer's text: around each multiple of LenStride.
LenStride == 64
LenSteps == 7
SsiLengths == {k * LenStride + j : k \in 0 .. LenSteps - 1, j \in {0, 1, LenStride - 1}}
\* A text of n characters in which the character tells the position.
SsiText(n, first) == [i \in 1 .. n |-> first + (i % 10)]
\* The smallest insert buffer that holds a full part and its terminator.
MinInsertLen == SsiChunkSize + 1

InitSsi ==
  /\ upload_contexts = [i \in UploadSlots |-> ZeroCtx]
  /\ download_contexts = [i \in DownloadSlots |-> ZeroCtx]
  /\ fs = (PathN :> NoNode)
  /\ side = "ssi"
  /\ req = [dir |-> "", op |-> "", q |-> NoRequest]
  /\ live = {}
  /\ mon = [dir |-> "", phase |-> 0]
  /\ current_chunk_ctx = NULL
  /\ current_chunk_idx = 0
  /\ current_connection = NULL
  /\ posts = {}
  /\ MngrInit
  /\ DownloadInit
  /\ \E n \in SsiLengths, first \in {48, 97}, len \in {MinInsertLen, InsertLen} :
       /\ json_buff = [text |-> SsiText(n, first)]
       /\ client = [phase |-> "ssi", iInsertLen |-> len, part |-> 0, calls |-> 0,
                    parts |-> 0, got |-> <<>>, done |-> FALSE,
                    last |-> [printed |-> 0, pcInsert |-> <<>>,
                              next_tag_part |-> HTTPD_LAST_TAG_PART]]

\* One call of ssi_handler for the part the server is at.
SsiPart ==
  /\ ~client.done
  /\ LET r == ssi_jsonpld(client.iInsertLen, client.part)
     IN  client' = [client EXCEPT
           !.calls = @ + 1,
           !.parts = IF r.printed > 0 THEN @ + 1 ELSE @,
           !.got = @ \o r.pcInsert,
           !.last = r,
           !.part = IF r.next_tag_part = HTTPD_LAST_TAG_PART THEN @ ELSE r.next_tag_part,
           !.done = (r.next_tag_part = HTTPD_LAST_TAG_PART)]
  /\ UNCHANGED <<upload_contexts, download_contexts, fs, json_buff, postVars,
                 side, req, live, mon, mngrVars, dlVars>>

NextSsi == SsiPart
SpecSsi == InitSsi /\ [][NextSsi]_vars

SsiCalled == client.phase = "ssi" /\ client.calls > 0
\* The part the last call was for, and ceil(L / 128).
SsiLastPart == client.calls - 1
SsiCeil == (Len(json_buff.text) + SsiChunkSize - 1) \div SsiChunkSize

\* C28: the calls for parts 0, 1, 2, ... of the JSONPLD tag each return at
\* most 128 bytes, those of the buffer from offset 128 * k on, and ask for
\* a next part exactly when bytes remain after the part returned; the parts
\* together are the content of the buffer, and for a buffer of L bytes the
\* last part that carries bytes is part number ceil(L / 128) (an insert
\* buffer of at least 129 bytes, a buffer no handler writes meanwhile).
C28_Parts ==
  SsiCalled =>
    LET k == SsiLastPart
        L == Len(json_buff.text)
    IN  /\ client.last.printed <= SsiChunkSize
        /\ client.last.printed = Len(client.last.pcInsert)
        /\ client.last.printed = Min(SsiChunkSize, Max(L - SsiChunkSize * k, 0))
        /\ \A i \in 1 .. client.last.printed :
             client.last.pcInsert[i] = json_buff.text[SsiChunkSize * k + i]
        /\ (client.last.next_tag_part # HTTPD_LAST_TAG_PART)
             <=> (SsiChunkSize * k + client.last.printed < L)
        /\ client.last.next_tag_part # HTTPD_LAST_TAG_PART
             => client.last.next_tag_part = k + 1
        /\ client.got = SubSeq(json_buff.text, 1, Min(L, SsiChunkSize * (k + 1)))
        /\ client.done =>
             /\ client.got = json_buff.text
             /\ client.parts = SsiCeil
             /\ client.calls = Max(SsiCeil, 1)

\* A buffer of 257 characters went out in three parts, the last of one
\* character, into an insert buffer of 129 bytes.
C28_Witness ==
  /\ SsiCalled /\ client.done
  /\ Len(json_buff.text) = 4 * LenStride + 1
  /\ client.iInsertLen = MinInsertLen
  /\ client.parts = 3 /\ client.last.printed = 1
  /\ client.got = json_buff.text
\* A buffer of exactly 128 characters went out in one part.
C28_OneFullPart ==
  /\ SsiCalled /\ client.done
  /\ Len(json_buff.text) = SsiChunkSize /\ client.calls = 1

-----------------------------------------------------------------------------
(* The size of a listing in json_buff *)

\* The last request was a listing of the folder /d.
LsServed == req.op = "ls" /\ Has(req.q, "folder") /\ req.q.folder = PathD
\* The response and its terminator are within json_buff.
LsFits ==
  /\ json_buff # Clobbered
  /\ Len(json_buff.text) + 1 <= MAX_JSON_PAYLOAD_SIZE

\* C29: cgi_ls never writes past json_buff: it adds no entry once the text
\* has reached the size of the buffer less 100 bytes, and whatever the
\* length of the entry names, the final text with the last entry, the
\* closing bracket or the {} sentinel and the terminator fits the buffer.
C29_ListingFits == LsServed => LsFits

\* The same for folders whose names have up to 50 characters: the text of
\* an entry is then within the headroom.
C29_ShortNamesFit ==
  (LsServed /\ LongestName(fs[PathD].data) <= 50) => LsFits
\* A listing that was cut short: it ends with the sentinel and fits.
C29_CutShort ==
  /\ LsServed /\ LsFits
  /\ Len(json_buff.text) >= MAX_JSON_PAYLOAD_SIZE - LS_HEADROOM
  /\ SubSeq(json_buff.text, Len(json_buff.text) - 3, Len(json_buff.text)) = <<44, 123, 125, 93>>

-----------------------------------------------------------------------------
(* The folder operations and the FatFs calls they make *)

\* The folder /d with the empty folder /d/e and the file /d/f; /d/g and
\* /d/aaaaa can be created.  Names: e, f, g, "%65" (e, percent-encoded) and
\* a name of DsSize + 1 characters, one more than ds[] and dd[] hold.
PathDG == <<47, 100, 47, 103>>
MaxOps == 2
NameLong == [k \in 1 .. DsSize + 1 |-> 97]
PathDLong == PathD \o <<Slash>> \o SubSeq(NameLong, 1, DsSize - 1)
OpsVolume ==
  (PathD :> EmptyDir) @@ (PathDE :> EmptyDir)
    @@ (PathDF :> [EmptyFile EXCEPT !.data = <<77>>])
    @@ (PathDG :> NoNode) @@ (PathDLong :> NoNode)
OpsNames == {<<101>>, <<102>>, <<103>>, <<37, 54, 53>>, NameLong}
OpsEntries ==
  {[folder |-> PathD, src |-> n] : n \in OpsNames} \cup {[folder |-> <<>>, src |-> <<100>>]}

InitOps ==
  /\ upload_contexts = [i \in UploadSlots |-> ZeroCtx]
  /\ download_contexts = [i \in DownloadSlots |-> ZeroCtx]
  /\ fs = OpsVolume
  /\ json_buff = EmptyBuff
  /\ side = "fs"
  /\ req = [dir |-> "", op |-> "", q |-> NoRequest]
  /\ live = {}
  /\ mon = [dir |-> "", phase |-> 0]
  /\ current_chunk_ctx = NULL
  /\ current_chunk_idx = 0
  /\ current_connection = NULL
  /\ posts = {}
  /\ MngrInit
  /\ DownloadInit
  /\ client = [phase |-> "ops", op |-> "", q |-> NoRequest, calls |-> <<>>,
               before |-> OpsVolume, n |-> 0]

\* The observer notes the request, the volume before it and the calls made.
OpsNoted(op, q, calls) ==
  /\ client.n < MaxOps
  /\ client' = [phase |-> "ops", op |-> op, q |-> q, calls |-> calls,
                before |-> fs, n |-> client.n + 1]

OpsMkdir(q) == cgi_mkdir(q) /\ OpsNoted("mkdir", q, mkdir_calls(fs, q))
OpsRen(q) == cgi_ren(q) /\ OpsNoted("ren", q, ren_calls(fs, q))
OpsDel(q) == cgi_del(q) /\ OpsNoted("del", q, del_calls(fs, q))
OpsAttr(q) == cgi_attr(q) /\ OpsNoted("attr", q, attr_calls(fs, q))

NextOps ==
  \/ \E q \in OpsEntries \cup {[src |-> <<103>>], [folder |-> PathD]} : OpsMkdir(q)
  \/ \E q \in {[folder |-> PathD, src |-> n, dst |-> m] :
                 n \in {<<101>>, <<102>>, NameLong}, m \in {<<102>>, <<103>>, NameLong}}
              \cup {[folder |-> PathD, src |-> <<102>>]} : OpsRen(q)
  \/ \E q \in OpsEntries \cup {[folder |-> PathD]} : OpsDel(q)
  \/ \E q \in OpsEntries, h \in {<<48>>, <<49>>}, ro \in {<<48>>, <<49>>} :
       \/ OpsAttr([folder |-> q.folder, src |-> q.src, hidden |-> h, readonly |-> ro])
       \/ OpsAttr([folder |-> q.folder, src |-> q.src, hidden |-> h])

SpecOps == InitOps /\ [][NextOps]_vars

OpsServed == client.phase = "ops" /\ client.op # ""
OpsRequired ==
  IF client.op = "ren" THEN {"folder", "src", "dst"}
  ELSE IF client.op = "attr" THEN {"folder", "src", "hidden", "readonly"}
  ELSE {"folder", "src"}
OpsMissing == ~(OpsRequired \subseteq DOMAIN client.q)
IsMutating(c) == c.fn \in {"f_mkdir", "f_rename", "f_unlink", "f_chmod"}
OpsStatus ==
  IF client.op = "mkdir" THEN "created"
  ELSE IF client.op = "ren" THEN "renamed"
  ELSE IF client.op = "del" THEN "deleted"
  ELSE "attributes updated"
\* The path folder/name of the request, name being src or dst.
OpsTarget(name) ==
  JoinPath(PercentDecoding(client.q.folder), PercentDecoding(name))
OpsPaths ==
  IF client.op = "ren" THEN <<OpsTarget(client.q.src), OpsTarget(client.q.dst)>>
  ELSE <<OpsTarget(client.q.src)>>
\* What the claim says of a request that is served; delete makes its one
\* mutating call when the entry is there and is not a folder with children.
OpsOutcome ==
  IF OpsMissing THEN
    /\ json_buff = Err("missing parameters")
    /\ client.calls = <<>>
    /\ fs = client.before
  ELSE
    LET m == SelectSeq(client.calls, IsMutating)
        p == FatPath(OpsTarget(client.q.src))
    IN  /\ Len(m) <= 1
        /\ Len(m) = 0 =>
             /\ client.op = "del"
             /\ Kind(client.before, p) = "none" \/ Children(client.before, p) # {}
        /\ \A i \in 1 .. Len(client.calls) : client.calls[i].paths = OpsPaths
        /\ json_buff = Status(OpsStatus) <=> (Len(m) = 1 /\ m[1].res = "FR_OK")
        /\ json_buff # Status(OpsStatus) => (IsError(json_buff) /\ fs = client.before)

\* C30: mkdir, rename, delete and set_attributes answer "missing
\* parameters" and make no filesystem call when a required parameter is
\* absent; otherwise they act on the path folder/name with a single mutating
\* filesystem call and answer with their status object if and only if that
\* call reported success, with an error object otherwise.
C30_FolderOps == OpsServed => OpsOutcome

\* The same for requests whose decoded folder and names fit their buffers.
OpsFit ==
  /\ Has(client.q, "folder") => Len(PercentDecoding(client.q.folder)) < DfSize
  /\ Has(client.q, "src") => Len(PercentDecoding(client.q.src)) < DsSize
  /\ Has(client.q, "dst") => Len(PercentDecoding(client.q.dst)) < DsSize
C30_FittingParams == (OpsServed /\ OpsFit) => OpsOutcome
\* The file /d/f was renamed to /d/g.
C30_Renamed ==
  /\ OpsServed /\ client.op = "ren" /\ json_buff = Status("renamed")
  /\ client.q.src = <<102>> /\ client.q.dst = <<103>>
  /\ fs[PathDG].kind = "file" /\ fs[PathDF].kind = "none"
\* mkdir with a name of DsSize + 1 characters created the folder of the
\* name cut to DsSize - 1 characters.
C30_CutName ==
  /\ OpsServed /\ client.op = "mkdir" /\ json_buff = Status("created")
  /\ client.q.src = NameLong
  /\ fs[PathDLong].kind = "dir"

-----------------------------------------------------------------------------
(* Chunk requests that fail, and the same chunk sent again *)

\* One upload (token t1 to /n) and one download (token t1 from /a) at a
\* time; the client notes how many chunk requests it sent and the outcome
\* of the file access of the last one.
InitRetry ==
  /\ upload_contexts = [i \in UploadSlots |-> ZeroCtx]
  /\ download_contexts = [i \in DownloadSlots |-> ZeroCtx]
  /\ fs = PoolVolume
  /\ json_buff = EmptyBuff
  /\ side = "both"
  /\ req = [dir |-> "", op |-> "", q |-> NoRequest]
  /\ live = {}
  /\ mon = [dir |-> "", phase |-> 0]
  /\ current_chunk_ctx = NULL
  /\ current_chunk_idx = 0
  /\ current_connection = NULL
  /\ posts = {}
  /\ MngrInit
  /\ DownloadInit
  /\ client = [phase |-> "retry", n |-> 0, io |-> ""]

RetrySent(io) ==
  /\ client.n < MaxSends
  /\ client' = [phase |-> "retry", n |-> client.n + 1, io |-> io]

RetryUploadStart(q) ==
  InUse(upload_contexts) = {} /\ cgi_upload_start(q) /\ UNCHANGED client
RetryDownloadStart(q) ==
  InUse(download_contexts) = {} /\ cgi_download_start(q) /\ UNCHANGED client
RetryUploadChunk(q, io) == cgi_upload_chunk(q, io, 0) /\ RetrySent(io)
RetryDownloadChunk(q, io) == cgi_download_chunk(q, io) /\ RetrySent(io)
RetryUploadEnd(q) == cgi_upload_end(q) /\ UNCHANGED client
RetryDownloadEnd(q) == cgi_download_end(q) /\ UNCHANGED client

GoodPayloads == {PayloadM}
NextRetry ==
  \/ RetryUploadStart([token |-> T1, fullpath |-> PathN])
  \/ RetryDownloadStart([token |-> T1, fullpath |-> PathA])
  \/ \E q \in UploadChunkReqs({T1}, 0 .. MaxChunk, GoodPayloads \cup {PayloadBad})
              \cup {[token |-> T1, payload |-> PayloadM],
                     [token |-> T2, chunk |-> ChunkStr(0), payload |-> PayloadM]},
        io \in {"ok", "short", "err"} : RetryUploadChunk(q, io)
  \/ \E q \in DownloadChunkReqs({T1, T2}, 0 .. MaxChunk), io \in {"ok", "err"} :
       RetryDownloadChunk(q, io)
  \/ RetryUploadEnd([token |-> T1])
  \/ RetryDownloadEnd([token |-> T1])

SpecRetry == InitRetry /\ [][NextRetry]_vars

\* The step serves a chunk request.
ChunkServed == client'.n = client.n + 1 /\ req'.op = "chunk"
\* The context a request names, in the pool of its direction.
CtxOf(r) ==
  IF ~Has(r.q, "token") THEN NULL
  ELSE IF r.dir = "upload" THEN find_upload_ctx(r.q.token)
  ELSE find_download_ctx(r.q.token)
\* The last request was a chunk request of a transfer under way, and failed.
ChunkFailed == req.op = "chunk" /\ IsError(json_buff) /\ CtxOf(req) # NULL
\* The step sends the chunk of the last request again, well-formed, and the
\* file access goes well.
Resent ==
  /\ req'.dir = req.dir
  /\ Has(req'.q, "token") /\ req'.q.token = req.q.token
  /\ Has(req'.q, "chunk") /\ (Has(req.q, "chunk") => req'.q.chunk = req.q.chunk)
  /\ req.dir = "upload" => (Has(req'.q, "payload") /\ req'.q.payload \in GoodPayloads)
  /\ client'.io = "ok"
SameSlot(a, b) ==
  /\ a.in_use = b.in_use
  /\ a.token = b.token
  /\ a.file.open = b.file.open
  /\ a.file.path = b.file.path
SameSlots ==
  /\ \A i \in UploadSlots : SameSlot(upload_contexts[i], upload_contexts'[i])
  /\ \A i \in DownloadSlots : SameSlot(download_contexts[i], download_contexts'[i])

\* C31: a chunk request, failed or not, changes neither which slots are in
\* use nor their tokens, and leaves the files of the contexts open; after a
\* chunk request of a transfer under way has failed (invalid base64, failed
\* or short write, failed read, missing chunk parameter) the same chunk
\* sent again succeeds.
C31_FailedChunkKeepsContext ==
  [][ChunkServed =>
       /\ SameSlots
       /\ (ChunkFailed /\ Resent) => ~IsError(json_buff')]_vars

\* A short write of chunk 1 was answered "write failed", and the context of
\* t1 is still in use with its file open.
C31_Witness ==
  /\ client.phase = "retry" /\ client.io = "short"
  /\ req.dir = "upload" /\ req.op = "chunk" /\ json_buff = Err("write failed")
  /\ \E i \in UploadSlots :
       /\ upload_contexts[i].in_use /\ upload_contexts[i].token = T1
       /\ upload_contexts[i].file.open
\* A read failed and the same chunk, asked for again, was delivered.
C31_ReadAgain ==
  /\ client.phase = "retry" /\ client.n >= 2 /\ client.io = "ok"
  /\ req.dir = "download" /\ req.op = "chunk" /\ Has(json_buff, "data")

-----------------------------------------------------------------------------
(* Raw-binary POSTs among other requests: two connections, two tokens *)

\* The requests of a run.
MaxPostSteps == 5
PostConns == {1, 2}
PostVolume == (PathN :> NoNode) @@ (PathB :> NoNode)
PostStarts == {[token |-> T1, fullpath |-> PathN], [token |-> T2, fullpath |-> PathB]}

\* The client notes, for each connection, the token in the query string of
\* its POST, and whether another request came in since the POST began.
InitPost ==
  /\ upload_contexts = [i \in UploadSlots |-> ZeroCtx]
  /\ download_contexts = [i \in DownloadSlots |-> ZeroCtx]
  /\ fs = PostVolume
  /\ json_buff = EmptyBuff
  /\ side = "upload"
  /\ req = [dir |-> "", op |-> "", q |-> NoRequest]
  /\ live = {}
  /\ mon = [dir |-> "", phase |-> 0]
  /\ current_chunk_ctx = NULL
  /\ current_chunk_idx = 0
  /\ current_connection = NULL
  /\ posts = {}
  /\ MngrInit
  /\ DownloadInit
  /\ client = [phase |-> "post", n |-> 0,
               tok |-> [c \in PostConns |-> <<>>],
               alone |-> [c \in PostConns |-> TRUE],
               before |-> PostVolume]

PostStep(tok, alone) ==
  /\ client.n < MaxPostSteps
  /\ client' = [phase |-> "post", n |-> client.n + 1, tok |-> tok, alone |-> alone,
                before |-> fs]
Disturbed == [c \in PostConns |-> FALSE]

PoStart(q) ==
  /\ find_upload_ctx(q.token) = NULL
  /\ cgi_upload_start(q)
  /\ PostStep(client.tok, Disturbed)
PoEnd(q) == cgi_upload_end(q) /\ PostStep(client.tok, Disturbed)
PoCancel(q) == cgi_upload_cancel(q) /\ PostStep(client.tok, Disturbed)
PoBegin(c, t) ==
  /\ c \notin posts
  /\ httpd_post_begin(c, PostUri(t, 0), 0)
  /\ PostStep([client.tok EXCEPT ![c] = t], [Disturbed EXCEPT ![c] = TRUE])
PoData(c) ==
  /\ httpd_post_receive_data(c, << <<77>> >>, <<"ok">>, 0)
  /\ PostStep(client.tok, client.alone)
PoFinished(c) ==
  /\ httpd_post_finished(c)
  /\ PostStep(client.tok, Disturbed)

NextPost ==
  \/ \E q \in PostStarts : PoStart(q)
  \/ \E t \in {T1, T2} : PoEnd([token |-> t])
  \/ \E t \in {T1, T2} : PoCancel([token |-> t])
  \/ \E c \in PostConns, t \in {T1, T2} : PoBegin(c, t)
  \/ \E c \in PostConns : PoData(c)
  \/ \E c \in PostConns : PoFinished(c)

SpecPost == InitPost /\ [][NextPost]_vars

\* The current chunk context is an in-use slot that holds token t.
CurrentHolds(t) ==
  /\ current_chunk_ctx # NULL
  /\ upload_contexts[current_chunk_ctx].in_use
  /\ upload_contexts[current_chunk_ctx].token = t

\* C32: while a raw-binary POST is between httpd_post_begin and
\* httpd_post_finished, the current chunk context is an in-use slot that
\* holds the token of that POST's query string, whatever other requests
\* (upload_end, upload_cancel, upload_start, a second POST) come in between.
C32_PostContext ==
  client.phase = "post" => \A c \in posts : CurrentHolds(client.tok[c])

\* The same for a POST that no other request comes across.
C32_PostAlone ==
  client.phase = "post" =>
    \A c \in posts : client.alone[c] => CurrentHolds(client.tok[c])
\* A segment of the POST for t1 went into /b, the file of t2's upload: t1's
\* upload was ended during the POST and t2's start took its slot.
C32_OtherFile ==
  /\ client.phase = "post" /\ req.op = "post_receive_data"
  /\ \E c \in posts : client.tok[c] = T1
  /\ Kind(client.before, PathB) = "file" /\ Kind(fs, PathB) = "file"
  /\ Len(fs[PathB].data) > Len(client.before[PathB].data)
  /\ \A c \in posts : client.tok[c] # T2

-----------------------------------------------------------------------------
(* The frame a dispatch works on *)

\* A command was delivered between the read of the token and the switch of
\* the call that made dispatch i.
FrameBetween(i) ==
  \E m \in 1 .. host.sent :
    host.at[m].call = host.disp[i].call /\ host.at[m].pc = "switch"
\* The token and the command id of dispatch i come from one frame (the
\* random token of command n is n).
OneFrame(i) == host.disp[i].token = host.disp[i].cmd
\* The call under way has dispatched and written the token back.
WroteBack ==
  /\ mngr.pc = "clear" /\ host.disp # <<>>
  /\ host.disp[Len(host.disp)].call = host.calls

\* C33: every dispatch of mngr_loop uses a command id and a random token
\* that come from one delivered frame, also when the interrupt handler
\* delivers a frame while mngr_loop is executing; the token written back to
\* the shared memory is the token of the command that was dispatched.
C33_OneFrame ==
  /\ \A i \in 1 .. Len(host.disp) : OneFrame(i)
  /\ WroteBack => shared.token = host.disp[Len(host.disp)].cmd

\* The same for the dispatches of calls in which no frame arrives between
\* the read of the token and the switch.
C33_NoFrameBetween ==
  /\ \A i \in 1 .. Len(host.disp) : ~FrameBetween(i) => OneFrame(i)
  /\ (WroteBack /\ ~FrameBetween(Len(host.disp)))
       => shared.token = host.disp[Len(host.disp)].cmd
\* The booster command, delivered second, was dispatched with the token of
\* the first command, and that token went back to the shared memory.
C33_Mixed ==
  /\ WroteBack
  /\ host.disp[Len(host.disp)].cmd = 2
  /\ host.disp[Len(host.disp)].id = APP_BOOSTER_START
  /\ host.disp[Len(host.disp)].token = 1
  /\ shared.token = 1

-----------------------------------------------------------------------------
(* Tokens of any length: which context a request resolves to *)

MaxTokSteps == 4
\* Tokens of 31 and of 32 characters with the same first 31, and "t1".
T31 == SubSeq(TLong, 1, TOKEN_SIZE - 1)
Toks == {T1, T31, TLong}
NoOwner == <<>>

\* The client notes, for each slot, the token of the start that got it.
InitTok ==
  /\ upload_contexts = [i \in UploadSlots |-> ZeroCtx]
  /\ download_contexts = [i \in DownloadSlots |-> ZeroCtx]
  /\ fs = PoolVolume
  /\ json_buff = EmptyBuff
  /\ side = "both"
  /\ req = [dir |-> "", op |-> "", q |-> NoRequest]
  /\ live = {}
  /\ mon = [dir |-> "", phase |-> 0]
  /\ current_chunk_ctx = NULL
  /\ current_chunk_idx = 0
  /\ current_connection = NULL
  /\ posts = {}
  /\ MngrInit
  /\ DownloadInit
  /\ client = [phase |-> "tok", n |-> 0,
               up |-> [i \in UploadSlots |-> NoOwner],
               down |-> [i \in DownloadSlots |-> NoOwner]]

TokStep(up, down) ==
  /\ client.n < MaxTokSteps
  /\ client' = [phase |-> "tok", n |-> client.n + 1, up |-> up, down |-> down]
\* The owners after a request: a start that succeeded owns the slot it got,
\* a slot that is no longer in use has no owner.
Owners(own, pool, slot, t) ==
  [i \in DOMAIN own |->
     IF ~pool[i].in_use THEN NoOwner
     ELSE IF i = slot /\ own[i] = NoOwner THEN t
     ELSE own[i]]

TokUploadStart(t) ==
  /\ \A i \in UploadSlots : client.up[i] # t
  /\ cgi_upload_start([token |-> t, fullpath |-> PathN])
  /\ TokStep(Owners(client.up, upload_contexts', alloc_upload_slot, t), client.down)
TokDownloadStart(t) ==
  /\ \A i \in DownloadSlots : client.down[i] # t
  /\ cgi_download_start([token |-> t, fullpath |-> PathA])
  /\ TokStep(client.up, Owners(client.down, download_contexts', alloc_download_slot, t))
TokUploadChunk(t) ==
  /\ cgi_upload_chunk([token |-> t, chunk |-> ChunkStr(0), payload |-> PayloadM], "ok", 0)
  /\ TokStep(client.up, client.down)
TokDownloadChunk(t) ==
  /\ cgi_download_chunk([token |-> t, chunk |-> ChunkStr(0)], "ok")
  /\ TokStep(client.up, client.down)
TokUploadEnd(t) ==
  /\ cgi_upload_end([token |-> t])
  /\ TokStep(Owners(client.up, upload_contexts', NULL, t), client.down)
TokUploadCancel(t) ==
  /\ cgi_upload_cancel([token |-> t])
  /\ TokStep(Owners(client.up, upload_contexts', NULL, t), client.down)
TokDownloadEnd(t) ==
  /\ cgi_download_end([token |-> t])
  /\ TokStep(client.up, Owners(client.down, download_contexts', NULL, t))
TokDownloadCancel(t) ==
  /\ cgi_download_cancel([token |-> t])
  /\ TokStep(client.up, Owners(client.down, download_contexts', NULL, t))
TokPostBegin(t) ==
  /\ posts = {}
  /\ httpd_post_begin(1, PostUri(t, 0), 0)
  /\ TokStep(client.up, client.down)
TokPostFinished ==
  /\ httpd_post_finished(1)
  /\ TokStep(client.up, client.down)

NextTok ==
  \/ \E t \in Toks : TokUploadStart(t)
  \/ \E t \in Toks : TokDownloadStart(t)
  \/ \E t \in Toks : TokUploadChunk(t)
  \/ \E t \in Toks : TokDownloadChunk(t)
  \/ \E t \in Toks : TokUploadEnd(t)
  \/ \E t \in Toks : TokUploadCancel(t)
  \/ \E t \in Toks : TokDownloadEnd(t)
  \/ \E t \in Toks : TokDownloadCancel(t)
  \/ \E t \in Toks : TokPostBegin(t)
  \/ TokPostFinished

SpecTok == InitTok /\ [][NextTok]_vars

\* The context httpd_post_begin takes for a POST with token t.
RawFind(t) ==
  LET uri == PostUri(t, 0)
      qs == StrChr(uri, 63, 1)
      at == StrStr(uri, ParamToken, qs)
  IN  find_upload_ctx(PostToken(uri, at + 6, 0))
\* Slot s of a pool is what the lookups of token t give.
Resolves(own, finds, t) ==
  \A s \in DOMAIN own :
    /\ own[s] = t => \A f \in finds : f = s
    /\ (own[s] # NoOwner /\ own[s] # t) => \A f \in finds : f # s

\* C34: after a start with token T, of any length, has succeeded, the chunk,
\* end and cancel requests with the same T find the context of that start,
\* by the form path and by the raw-binary path; a different token never
\* resolves to that context.
C34_TokenResolves ==
  client.phase = "tok" =>
    \A t \in Toks :
      /\ Resolves(client.up, {find_upload_ctx(t), RawFind(t)}, t)
      /\ Resolves(client.down, {find_download_ctx(t)}, t)

\* The same with tokens of at most 31 characters only.
TokShort(t) == Len(t) < TOKEN_SIZE
C34_ShortTokens ==
  (client.phase = "tok" /\ (\A i \in UploadSlots : TokShort(client.up[i]))
                        /\ (\A j \in DownloadSlots : TokShort(client.down[j]))) =>
    \A t \in {x \in Toks : TokShort(x)} :
      /\ Resolves(client.up, {find_upload_ctx(t), RawFind(t)}, t)
      /\ Resolves(client.down, {find_download_ctx(t)}, t)
\* The upload of the 32-character token is under way and its upload_end
\* was answered "invalid token".
C34_LongLost ==
  /\ client.phase = "tok"
  /\ \E i \in UploadSlots : client.up[i] = TLong /\ upload_contexts[i].in_use
  /\ req = [dir |-> "upload", op |-> "end", q |-> [token |-> TLong]]
  /\ json_buff = Err("invalid token")
\* A POST with the 32-character token took the context of the 31-character
\* token, the only upload under way.
C34_OtherToken ==
  /\ client.phase = "tok" /\ req.op = "post_begin" /\ posts = {1}
  /\ current_chunk_ctx # NULL /\ client.up[current_chunk_ctx] = T31
  /\ \A i \in UploadSlots : client.up[i] # TLong
  /\ RawFind(TLong) = current_chunk_ctx /\ find_upload_ctx(TLong) = NULL

-----------------------------------------------------------------------------
(* A download from the request to its end: the main loop keeps turning and *)
(* the network answers a request that was sent.                            *)

\* Requests for a://a/a into /d, for the URL "aa" into /d, for a://a/a into
\* the folder /x that does not exist; the browser asks when no download is
\* under way.
LiveParams ==
  { <<Param("folder", Ptr(PathD)), Param("url", Ptr(UrlA))>>,
    <<Param("folder", Ptr(PathD)), Param("url", Ptr(UrlBad))>>,
    <<Param("folder", Ptr(PathX)), Param("url", Ptr(UrlA))>> }
LiveRequest(params) ==
  /\ downloadStatus \in {"IDLE", "FAILED"}
  /\ DownloadRequest(params)
\* A turn of the loop of mngr_init, before and after the start time.
LoopTurn ==
  \E sent \in BOOLEAN, e \in Events \cup {NoEvent} :
    /\ downloadStatus \notin {"STARTED", "IN_PROGRESS"} => e = NoEvent
    /\ downloadStatus # "NOT_STARTED" => sent
    /\ DownloadSwitch(TRUE, sent, e)
LoopWait ==
  /\ downloadStatus = "NOT_STARTED"
  /\ DownloadSwitch(FALSE, TRUE, NoEvent)
\* The HTTP client reports the result of the request.
NetAnswer == \E e \in {x \in Events : x.cb = "result"} : NetworkEvent(e)

NextLive ==
  \/ \E params \in LiveParams : LiveRequest(params)
  \/ \E e \in Events : NetworkEvent(e)
  \/ LoopTurn
  \/ LoopWait

\* The loop of mngr_init turns for ever (while (!startBooster), and no
\* command of the host here): a turn is always possible and always shows
\* in the parity of the turns, so the fairness of the loop is that turns
\* past the start time happen again and again.  The network answers: the
\* result callback of a request under way is weakly fair.
SpecLive ==
  InitNet /\ [][NextLive]_vars /\ []<><<LoopTurn>>_vars /\ WF_vars(NetAnswer)

Over == downloadStatus \in {"IDLE", "FAILED"}

\* C35: with the main loop scheduled fairly and a network that answers in
\* the end, every request to /download.cgi that set the status to requested
\* leads to the status idle or failed, also when download_start returns an
\* error; the status does not stay not-started, started or in-progress.
C35_DownloadEnds == (downloadStatus = "REQUESTED") ~> Over

\* The same from the point where the HTTP client has taken the request.
C35_SentEnds == (downloadStatus = "STARTED" /\ request.active) ~> Over
\* The start time has passed, the URL of the request cannot be parsed and
\* the status is still not-started.
C35_NotStarted ==
  /\ Net /\ client.last = "loop" /\ client.before.downloadStatus = "NOT_STARTED"
  /\ downloadStatus = "NOT_STARTED"
  /\ parseUrl(Ptr(url), components, fileUrl).ret # 0
  /\ components = parseUrl(Ptr(url), components, fileUrl).components
\* The HTTP client refused the request and the status is in-progress, with
\* no request under way and the file closed.
C35_NeverSent ==
  /\ Net /\ client.last = "loop"
  /\ downloadStatus = "IN_PROGRESS"
  /\ ~request.active /\ ~request.complete /\ ~file.open

-----------------------------------------------------------------------------
(* One download at a time *)

\* The step is a download_start that opened a file and handed a request to
\* the HTTP client.
Started == downloadStatus = "NOT_STARTED" /\ downloadStatus' = "STARTED"

\* C36: download_start is invoked only when no earlier request of the HTTP
\* client is still outstanding, also when /download.cgi is requested again
\* while a download is started or in progress, so that the data of one URL
\* never goes to the file opened for another.
C36_OneAtATime == [][Started => ~request.active]_vars

\* A request was accepted while the download of another was in progress:
\* the status is requested and the first request is still outstanding.
C36_AskedAgain ==
  /\ Net /\ client.last = "cgi" /\ client.page = ProgressPage
  /\ client.before.downloadStatus = "IN_PROGRESS"
  /\ downloadStatus = "REQUESTED"
  /\ request.active /\ file.open

-----------------------------------------------------------------------------
(* What the raw-binary path answers *)

\* The last send was a POST that ran from begin to finished undisturbed.
RawSent ==
  /\ client.phase = "upload" /\ req.op = "post_finished"
  /\ client.last.key # <<>> /\ client.last.key[1] = "raw"

\* C37: httpd_post_finished answers chunk_ok only if every data segment of
\* the POST was written completely; a failed or short write of a segment
\* does not give chunk_ok.
C37_RawChunkOk ==
  RawSent => (json_buff = Status("chunk_ok") => client.last.full)

\* httpd_post_finished answers chunk_ok whatever was written.
C37_AlwaysOk ==
  (client.phase = "upload" /\ req.op = "post_finished") => json_buff = Status("chunk_ok")
\* A POST of two bytes stored one and was answered chunk_ok.
C37_ShortOk ==
  /\ RawSent /\ json_buff = Status("chunk_ok")
  /\ Len(client.last.key[3]) = 2
  /\ client.last.hi - client.last.lo = 1

-----------------------------------------------------------------------------
(* The folder picker: cgi_folder *)

\* AM_DIR, the directory bit of fattrib.
AM_DIR == 16
IsDirEntry(fno) == (fno.fattrib \div AM_DIR) % 2 = 1

\* snprintf(tmp, sizeof(tmp), "\"%s\",", fno.fname): the text is cut to
\* sizeof(tmp) - 1 characters.
FolderText(fno) ==
  LET whole == <<34>> \o fno.fname \o <<34, 44>>
  IN  SubSeq(whole, 1, Min(Len(whole), LS_TMP_SIZE - 1))

\* The f_readdir loop of cgi_folder over the entries a .. b of the
\* directory table, from the state st (the text in json_buff and the flag)
\* the loop has reached: strcat adds the text of every directory.
RECURSIVE folder_loop(_, _, _, _)
folder_loop(table, a, b, st) ==
  IF a > b THEN st
  ELSE IF a = b THEN
    IF IsDirEntry(table[a])
      THEN [buf |-> st.buf \o FolderText(table[a]), found |-> TRUE]
    ELSE st
  ELSE LET m == (a + b) \div 2
       IN  folder_loop(table, m + 1, b, folder_loop(table, a, m, st))

\* The array closed: a trailing comma becomes "]", else "]" is added.
folder_close(r) ==
  LET len == Len(r.buf)
  IN  IF r.found /\ len > 1 /\ r.buf[len] = 44
        THEN SubSeq(r.buf, 1, len - 1) \o <<93>>
      ELSE r.buf \o <<93>>

\* cgi_folder; ub is what the build makes of a write past the buffer.
cgi_folder(q, ub) ==
  LET folder == IF Has(q, "folder") THEN url_decode(q.folder, Len(q.folder) + 1)
                ELSE [ok |-> FALSE, out |-> <<>>]
      table == fs[folder.out].data
      r == folder_loop(table, 1, Len(table), [buf |-> <<91>>, found |-> FALSE])
      text == folder_close(r)
  IN  /\ UNCHANGED <<upload_contexts, download_contexts, fs>>
      /\ IF ~folder.ok \/ Kind(fs, folder.out) # "dir" THEN
           Served("fs", "folder", q, [text |-> <<91, 93>>])
         ELSE IF Len(r.buf) + 1 > MAX_JSON_PAYLOAD_SIZE THEN
           Served("fs", "folder", q, IF ub = "intact" THEN [text |-> text] ELSE Clobbered)
         ELSE
           Served("fs", "folder", q, [text |-> text])

\* Directory tables: `files` files and `dirs` directories, the files
\* between the first directories, with names of nameLen characters.
MaxFolders == 17
FolderInfo(k, nameLen, isDir) ==
  [fname |-> LsName(k, nameLen),
   fattrib |-> IF isDir THEN AM_DIR + 2 * (k % 2) ELSE 32 + (k % 2),
   fsize |-> IF isDir THEN 0 ELSE k * 7919,
   fdate |-> 23073, ftime |-> 2 * k]
FolderTable(files, dirs, nameLen) ==
  [k \in 1 .. (files + dirs) |->
     FolderInfo(k, nameLen, k > 2 * files \/ k % 2 = 0)]
FolderTables ==
  { FolderTable(files, dirs, nameLen) :
      files \in {0, 2}, dirs \in {0, 1, 3, MaxFolders - 1, MaxFolders},
      nameLen \in {3, 12, 252, 253, 254, 255} }
\* "%2Fd", the path /d percent-encoded.
PathDEncoded == <<37, 50, 70, 100>>
FolderRequests ==
  {[folder |-> PathD], [folder |-> PathDEncoded], [folder |-> PathA],
   [nextItem |-> <<48>>]}

InitFolder ==
  /\ upload_contexts = [i \in UploadSlots |-> ZeroCtx]
  /\ download_contexts = [i \in DownloadSlots |-> ZeroCtx]
  /\ \E table \in FolderTables :
       fs = (PathD :> [kind |-> "dir", rdo |-> FALSE, hid |-> FALSE, data |-> table])
  /\ json_buff = EmptyBuff
  /\ side = "fs"
  /\ req = [dir |-> "", op |-> "", q |-> NoRequest]
  /\ live = {}
  /\ mon = [dir |-> "", phase |-> 0]
  /\ current_chunk_ctx = NULL
  /\ current_chunk_idx = 0
  /\ current_connection = NULL
  /\ posts = {}
  /\ MngrInit
  /\ DownloadInit
  /\ client = [phase |-> "folders"]

FolderCall(q, ub) ==
  /\ cgi_folder(q, ub)
  /\ UNCHANGED client

NextFolder ==
  \E q \in FolderRequests, ub \in {"intact", "clobbered"} : FolderCall(q, ub)

SpecFolder == InitFolder /\ [][NextFolder]_vars

\* The names of the subdirectories of a directory table, in its order.
RECURSIVE Subdirs(_, _)
Subdirs(table, k) ==
  IF k > Len(table) THEN <<>>
  ELSE (IF IsDirEntry(table[k]) THEN <<table[k].fname>> ELSE <<>>)
         \o Subdirs(table, k + 1)
\* The JSON array of the strings names[k .. ].
RECURSIVE JsonStrings(_, _)
JsonStrings(names, k) ==
  IF k > Len(names) THEN <<>>
  ELSE (IF k > 1 THEN <<44>> ELSE <<>>) \o <<34>> \o names[k] \o <<34>>
         \o JsonStrings(names, k + 1)
JsonArray(names) == <<91>> \o JsonStrings(names, 1) \o <<93>>

\* The last request asked for the subfolders of the folder /d.
FolderServed ==
  /\ req.op = "folder" /\ Has(req.q, "folder")
  /\ req.q.folder \in {PathD, PathDEncoded}
\* json_buff holds, with its terminator, the JSON array of the names of the
\* subdirectories of /d and nothing else.
FolderListed ==
  /\ json_buff # Clobbered
  /\ Len(json_buff.text) < MAX_JSON_PAYLOAD_SIZE
  /\ json_buff.text = JsonArray(Subdirs(fs[PathD].data, 1))

\* C38: cgi_folder never writes past json_buff: for any number of
\* subdirectories and any name lengths, the buffer holds when the handler
\* returns a null-terminated JSON array shorter than 4096 bytes that lists
\* only the subdirectories of the folder.
C38_FolderFits == FolderServed => FolderListed

\* The size of the text the loop builds: "[" and, for each subdirectory,
\* its name in quotes and a comma.
RECURSIVE FolderTextSize(_, _)
FolderTextSize(table, k) ==
  IF k > Len(table) THEN 1
  ELSE (IF IsDirEntry(table[k]) THEN Len(table[k].fname) + 3 ELSE 0)
         + FolderTextSize(table, k + 1)
\* The same for folders whose subdirectory names, quoted and with the
\* comma, are within tmp[] and fit json_buff together.
C38_SmallFolders ==
  (/\ FolderServed
   /\ LongestName(fs[PathD].data) + 3 <= LS_TMP_SIZE - 1
   /\ FolderTextSize(fs[PathD].data, 1) < MAX_JSON_PAYLOAD_SIZE) => FolderListed
\* A folder of 17 subdirectories with names of 252 characters among files:
\* the text passed the end of json_buff.
C38_Overrun ==
  /\ FolderServed
  /\ Len(Subdirs(fs[PathD].data, 1)) = MaxFolders
  /\ Len(fs[PathD].data) = MaxFolders + 2
  /\ LongestName(fs[PathD].data) = 252
  /\ \/ json_buff = Clobbered
     \/ Len(json_buff.text) >= MAX_JSON_PAYLOAD_SIZE
\* A folder of three subdirectories with names of 254 characters: the text
\* is within json_buff, the names are cut and their closing quotes missing.
C38_CutNames ==
  /\ FolderServed
  /\ Len(Subdirs(fs[PathD].data, 1)) = 3
  /\ LongestName(fs[PathD].data) = 254
  /\ json_buff # Clobbered
  /\ Len(json_buff.text) < MAX_JSON_PAYLOAD_SIZE
  /\ json_buff.text # JsonArray(Subdirs(fs[PathD].data, 1))

-----------------------------------------------------------------------------
(* url_decode into the buffer it reads from *)

\* Memory is a sequence of bytes; a pointer is the offset of its first
\* byte, and p[i] is the byte i places behind it.
Rd(mem, p, i) == At(mem, p + i + 1)
Wr(mem, p, i, c) == [mem EXCEPT ![p + i + 1] = c]
\* The string a pointer points to.
StrAt(mem, p) == CStr(SubSeq(mem, p + 1, Len(mem)))

\* The loop with a terminator written behind every byte stored.
RECURSIVE url_decode_at_terminates_each(_, _, _, _, _, _, _)
url_decode_at_terminates_each(mem, in, out, outLen, i, o, ahead) ==
  LET put(c) == Wr(Wr(mem, out, o, c), out, o + 1, NUL)
      passes == ahead \/ out + o > in + i
  IN  IF Rd(mem, in, i) = NUL \/ ~(o < outLen - 1) THEN
        [mem |-> Wr(mem, out, o, NUL), i |-> i, o |-> o, ahead |-> ahead]
      ELSE IF /\ Rd(mem, in, i) = 37
              /\ IsXDigit(Rd(mem, in, i + 1)) /\ IsXDigit(Rd(mem, in, i + 2))
        THEN url_decode_at_terminates_each(
               put((HexVal(Rd(mem, in, i + 1)) * 16 + HexVal(Rd(mem, in, i + 2))) % 256),
               in, out, outLen, i + 3, o + 1, passes)
      ELSE IF Rd(mem, in, i) = 43
        THEN url_decode_at_terminates_each(put(32), in, out, outLen, i + 1, o + 1, passes)
      ELSE url_decode_at_terminates_each(put(Rd(mem, in, i)), in, out, outLen,
                                         i + 1, o + 1, passes)

\* The loop of url_decode and its last assignment on the memory itself,
\* from the read position i and the write position o: every byte is read
\* from the memory as the writes before it left it.  `ahead` records
\* whether a byte was stored at an address behind the one being read.
RECURSIVE url_decode_at(_, _, _, _, _, _, _)
url_decode_at(mem, in, out, outLen, i, o, ahead) ==
  LET passes == ahead \/ out + o > in + i
  IN  IF Rd(mem, in, i) = NUL \/ ~(o < outLen - 1) THEN
        [mem |-> Wr(mem, out, o, NUL), i |-> i, o |-> o, ahead |-> ahead]
      ELSE IF /\ Rd(mem, in, i) = 37
              /\ IsXDigit(Rd(mem, in, i + 1)) /\ IsXDigit(Rd(mem, in, i + 2))
        THEN url_decode_at(
               Wr(mem, out, o,
                  (HexVal(Rd(mem, in, i + 1)) * 16 + HexVal(Rd(mem, in, i + 2))) % 256),
               in, out, outLen, i + 3, o + 1, passes)
      ELSE IF Rd(mem, in, i) = 43
        THEN url_decode_at(Wr(mem, out, o, 32), in, out, outLen, i + 1, o + 1, passes)
      ELSE url_decode_at(Wr(mem, out, o, Rd(mem, in, i)), in, out, outLen,
                         i + 1, o + 1, passes)

\* url_decode(req_folder, pcValue[i], strlen(pcValue[i]) + 1) with
\* req_folder = pcValue[i], as cgi_folder and cgi_ls call it: the memory
\* is the value and its terminator.
url_decode_in_place(value) ==
  url_decode_at(value \o <<NUL>>, 0, 0, Len(value) + 1, 0, 0, FALSE)
\* The same call with a buffer of its own behind the value.
url_decode_apart(value) ==
  url_decode_at(value \o <<NUL>> \o JunkBuf(Len(value) + 1),
                0, Len(value) + 1, Len(value) + 1, 0, 0, FALSE)

InitAlias ==
  /\ StaticInit
  /\ side = "url_decode"
  /\ \E value \in StringsOver(DecChars, MaxIn) :
       client = [phase |-> "call", value |-> value]

\* The value decoded in place.
AliasCall ==
  /\ client.phase = "call"
  /\ LET r == url_decode_in_place(client.value)
     IN  client' = [phase |-> "again", value |-> client.value,
                    folder |-> StrAt(r.mem, 0),
                    i |-> r.i, o |-> r.o, ahead |-> r.ahead]
  /\ UNCHANGED <<upload_contexts, download_contexts, fs, json_buff, postVars,
                 side, req, live, mon, mngrVars, dlVars>>
\* The same value decoded into a separate buffer.
ApartCall ==
  /\ client.phase = "again"
  /\ LET r == url_decode_apart(client.value)
     IN  client' = [client EXCEPT !.phase = "done"]
                     @@ [apart |-> StrAt(r.mem, Len(client.value) + 1),
                         kept |-> SubSeq(r.mem, 1, Len(client.value))]
  /\ UNCHANGED <<upload_contexts, download_contexts, fs, json_buff, postVars,
                 side, req, live, mon, mngrVars, dlVars>>

NextAlias == AliasCall \/ ApartCall
SpecAlias == InitAlias /\ [][NextAlias]_vars

\* C39: url_decode called with the output buffer aliasing the input and
\* the capacity strlen(input) + 1 yields the same string as decoding into
\* a separate buffer: the decoded length never exceeds the input length
\* and the write position never passes the read position.
C39_InPlace ==
  /\ client.phase \in {"again", "done"} =>
       /\ Len(client.folder) <= Len(client.value)
       /\ client.o <= client.i
       /\ ~client.ahead
  /\ client.phase = "done" =>
       /\ client.folder = client.apart
       /\ client.kept = client.value
       /\ client.apart = url_decode(client.value, Len(client.value) + 1).out

\* "+%4A" decoded both ways gives " J", two bytes for the four read.
C39_Witness ==
  /\ client.phase = "done"
  /\ client.value = <<43, 37, 52, 65>>
  /\ client.folder = <<32, 74>>
  /\ client.apart = <<32, 74>>
  /\ client.o = 2 /\ client.i = 4

=============================================================================
